---- MODULE Spec2Model ----
(***************************************************************************)
(* Model of the campus-directory subsystem of src/Code.js: the durable     *)
(* store (PropertiesService script properties), the Recipients sheet, the  *)
(* CampusReferenceInfo sheet, and the operations MigrationManager,         *)
(* PropertiesManager, RecipientsSheetManager, getInfoByCampus, onEdit and  *)
(* refreshCampusCache perform on them.                                     *)
(*                                                                         *)
(* A JavaScript string is a sequence of one-character strings, so that     *)
(* trim, toLowerCase and the two e-mail regular expressions are computed   *)
(* character by character.  A JavaScript object used as a map is a         *)
(* sequence of entries in insertion order (the order Object.keys gives).   *)
(***************************************************************************)
EXTENDS Integers, Sequences, FiniteSets, TLC

\* ------------------------------------------------------------------------
\* Bounds of the model
\* ------------------------------------------------------------------------

\* Number of user edits of the Recipients sheet in one behaviour.
MaxEdits == 1

\* Number of I/O calls that fail inside one invocation (SpecFaults).
MaxFaults == 1

\* Data rows of the tables handed to the Validator on its own.
MaxRows == 3

\* ------------------------------------------------------------------------
\* Strings
\* ------------------------------------------------------------------------

LowerLetters ==
  <<"a", "b", "c", "d", "e", "f", "g", "h", "i", "j", "k", "l", "m",
    "n", "o", "p", "q", "r", "s", "t", "u", "v", "w", "x", "y", "z">>

UpperLetters ==
  <<"A", "B", "C", "D", "E", "F", "G", "H", "I", "J", "K", "L", "M",
    "N", "O", "P", "Q", "R", "S", "T", "U", "V", "W", "X", "Y", "Z">>

Range(s) == {s[i] : i \in 1..Len(s)}

Lower == Range(LowerLetters)
Upper == Range(UpperLetters)
Digit == {"0", "1", "2", "3", "4", "5", "6", "7", "8", "9"}
Alnum == Lower \cup Upper \cup Digit

\* \s of a JavaScript regular expression and the characters trim() strips.
Whitespace == {" ", "\t", "\n", "\r"}

\* String.prototype.toLowerCase, one character.
LowerChar(c) ==
  IF c \in Upper
  THEN LowerLetters[CHOOSE i \in 1..Len(UpperLetters) : UpperLetters[i] = c]
  ELSE c

\* A toLowerCase that leaves the letters as they are (what the lookup would
\* do without it).
KeepCase(s) == s

toLowerCase(s) == [i \in 1..Len(s) |-> LowerChar(s[i])]

RECURSIVE TrimStart(_)
TrimStart(s) ==
  IF s = <<>> THEN <<>>
  ELSE IF Head(s) \in Whitespace THEN TrimStart(Tail(s)) ELSE s

RECURSIVE TrimEnd(_)
TrimEnd(s) ==
  IF s = <<>> THEN <<>>
  ELSE IF s[Len(s)] \in Whitespace THEN TrimEnd(SubSeq(s, 1, Len(s) - 1)) ELSE s

\* A trim that leaves the whitespace around the string.
KeepBlanks(s) == s

\* String.prototype.trim
trim(s) == TrimEnd(TrimStart(s))

\* Array.prototype.includes on a sequence
Includes(seq, x) == \E i \in 1..Len(seq) : seq[i] = x

\* ------------------------------------------------------------------------
\* The two e-mail format rules
\* ------------------------------------------------------------------------

AtPositions(s) == {i \in 1..Len(s) : s[i] = "@"}

\* The character class of the local part in emailRegex (line 1267).  The class
\* also holds the grave accent, which the lexer of TLA+ rejects inside a
\* string; no string of this model contains it.
LocalChars ==
  Alnum \cup {".", "!", "#", "$", "%", "&", "'", "*", "+", "/", "=", "?",
              "^", "_", "{", "|", "}", "~", "-"}

\* The domain part of emailRegex (line 1267): dot-separated labels of 1..63
\* characters, letters digits and hyphens, each beginning and ending with a
\* letter or digit.
DomainLabelsOk(d) ==
  /\ d # <<>>
  /\ \A i \in 1..Len(d) : d[i] \in Alnum \cup {"-", "."}
  /\ d[1] \in Alnum
  /\ d[Len(d)] \in Alnum
  /\ \A i \in 1..Len(d) :
       d[i] = "." => (d[i - 1] \in Alnum /\ d[i + 1] \in Alnum)
  /\ \A i \in 1..(Len(d) - 63) : \E j \in i..(i + 63) : d[j] = "."

\* emailRegex.test(recipient) of validateEmailAddresses.  Neither character
\* class admits "@", so a match has exactly one "@".
SheetEmailRegexTest(s) ==
  /\ Cardinality(AtPositions(s)) = 1
  /\ LET a      == CHOOSE i \in AtPositions(s) : TRUE
         local  == SubSeq(s, 1, a - 1)
         domain == SubSeq(s, a + 1, Len(s))
     IN /\ local # <<>>
        /\ \A i \in 1..Len(local) : local[i] \in LocalChars
        /\ DomainLabelsOk(domain)

\* emailRegex.test(email) of validateCacheData (line 957): one "@", no
\* whitespace, a non-empty local part, and a domain with a "." that is neither
\* its first nor its last character.
CacheEmailRegexTest(s) ==
  /\ Cardinality(AtPositions(s)) = 1
  /\ \A i \in 1..Len(s) : s[i] \notin Whitespace
  /\ LET a      == CHOOSE i \in AtPositions(s) : TRUE
         domain == SubSeq(s, a + 1, Len(s))
     IN /\ a > 1
        /\ \E i \in 2..(Len(domain) - 1) : domain[i] = "."

\* ------------------------------------------------------------------------
\* JavaScript objects used as maps: entries in insertion order
\* ------------------------------------------------------------------------

Keys(m) == [i \in 1..Len(m) |-> m[i].key]

Has(m, k) == \E i \in 1..Len(m) : m[i].key = k

Index(m, k) == CHOOSE i \in 1..Len(m) : m[i].key = k

\* m[k] = e: an existing key keeps its place, a new key goes last.
Put(m, e) ==
  IF Has(m, e.key)
  THEN [i \in 1..Len(m) |-> IF m[i].key = e.key THEN e ELSE m[i]]
  ELSE Append(m, e)

\* ------------------------------------------------------------------------
\* JSON text of a string: JSON.stringify escapes the quotation mark and the
\* reverse solidus with a reverse solidus, JSON.parse takes the escapes away.
\* (No string of this model holds a control character.)
\* ------------------------------------------------------------------------

JSONEscaped == {"\"", "\\"}

RECURSIVE JSONQuoteChars(_)
JSONQuoteChars(s) ==
  IF s = <<>> THEN <<>>
  ELSE (IF Head(s) \in JSONEscaped THEN <<"\\", Head(s)>> ELSE <<Head(s)>>)
       \o JSONQuoteChars(Tail(s))

\* The characters between the quotation marks of JSON.stringify(s).
JSONQuote(s) ==
  IF \A i \in 1..Len(s) : s[i] \notin JSONEscaped THEN s ELSE JSONQuoteChars(s)

RECURSIVE JSONUnquoteChars(_)
JSONUnquoteChars(t) ==
  IF t = <<>> THEN <<>>
  ELSE IF Head(t) = "\\" /\ Len(t) >= 2
  THEN <<t[2]>> \o JSONUnquoteChars(SubSeq(t, 3, Len(t)))
  ELSE <<Head(t)>> \o JSONUnquoteChars(Tail(t))

\* The string JSON.parse reads from the characters t between quotation marks.
JSONUnquote(t) ==
  IF \A i \in 1..Len(t) : t[i] # "\\" THEN t ELSE JSONUnquoteChars(t)

\* ------------------------------------------------------------------------
\* Program constants
\* ------------------------------------------------------------------------

\* RecipientsSheetManager.SHEET_NAME, CAMPUS_COLUMN, RECIPIENT_COLUMN
SHEET_NAME == <<"R", "e", "c", "i", "p", "i", "e", "n", "t", "s">>
CAMPUS_COLUMN == <<"C", "a", "m", "p", "u", "s">>
RECIPIENT_COLUMN == <<"R", "e", "c", "i", "p", "i", "e", "n", "t">>

\* The key readRecipientsDataOptimized adds to the map it returns.
VALIDATION_RESULTS_KEY ==
  <<"_", "v", "a", "l", "i", "d", "a", "t", "i", "o", "n",
    "R", "e", "s", "u", "l", "t", "s">>

CampusTest == <<"t", "e", "s", "t">>
CampusZachryMagnet ==
  <<"z", "a", "c", "h", "r", "y", " ", "m", "a", "g", "n", "e", "t">>

\* The embedded seed table of extractHardcodedData, abridged to its last two
\* campuses, "zachry magnet" and "test", in the order of the source.
HardcodedData ==
  << [key |-> CampusZachryMagnet,
      val |-> << <<"m", "a", "t", "t", "h", "e", "w", ".", "p", "a", "t", "t",
                   "y", "@", "n", "i", "s", "d", ".", "n", "e", "t">> >>,
      isArray |-> TRUE],
     [key |-> CampusTest,
      val |-> << <<"r", "e", "g", "g", "i", "e", ".", "o", "l", "l", "e", "n",
                   "d", "i", "e", "c", "k", "@", "n", "i", "s", "d", ".", "n",
                   "e", "t">>,
                 <<"z", "i", "n", "a", ".", "g", "o", "n", "z", "a", "l", "e",
                   "s", "@", "n", "i", "s", "d", ".", "n", "e", "t">> >>,
      isArray |-> TRUE] >>

\* getHardcodedDriveLinks, abridged to the same two campuses.
HardcodedDriveLinks ==
  << [key |-> CampusZachryMagnet,
      val |-> <<"1", "w", "M", "j", "h", "A", "x", "6", "w", "G", "O", "w",
                "5", "j", "-", "t", "u", "7", "-", "4", "w", "T", "N", "n",
                "H", "7", "V", "8", "0", "p", "f", "P", "e">>],
     [key |-> CampusTest,
      val |-> <<"1", "n", "M", "J", "A", "E", "c", "G", "I", "h", "_", "Q",
                "n", "h", "f", "S", "5", "g", "j", "C", "k", "K", "d", "6",
                "C", "t", "o", "A", "3", "r", "5", "c", "f">>] >>

\* ------------------------------------------------------------------------
\* Validator (RecipientsSheetManager)
\* ------------------------------------------------------------------------

\* A loop body of validateEmailAddresses that leaves out a row whose
\* recipient was seen before.
ValidateRowSkipsDuplicates(acc, row, rowNumber) ==
  LET campus    == trim(row[1])
      recipient == trim(row[2])
      lowerCaseEmail == toLowerCase(recipient)
  IN IF campus = <<>> /\ recipient = <<>>
     THEN [acc EXCEPT !.emptyRows = @ + 1]
     ELSE IF campus = <<>> \/ recipient = <<>>
     THEN [acc EXCEPT
             !.errors = Append(@, rowNumber),
             !.invalid = Append(@, [campus |-> campus, recipient |-> recipient,
                                    rowNumber |-> rowNumber])]
     ELSE IF lowerCaseEmail \in acc.seenEmails
     THEN [acc EXCEPT !.warnings = Append(@, rowNumber),
                      !.duplicateEmails = @ + 1]
     ELSE IF SheetEmailRegexTest(recipient)
     THEN [acc EXCEPT
             !.seenEmails = @ \cup {lowerCaseEmail},
             !.valid = Append(@, [campus |-> toLowerCase(campus),
                                  recipient |-> recipient,
                                  rowNumber |-> rowNumber]),
             !.validEmails = @ + 1]
     ELSE [acc EXCEPT
             !.seenEmails = @ \cup {lowerCaseEmail},
             !.invalid = Append(@, [campus |-> campus, recipient |-> recipient,
                                    rowNumber |-> rowNumber]),
             !.errors = Append(@, rowNumber),
             !.invalidEmails = @ + 1]

\* One iteration of the loop of validateEmailAddresses: data[i] is the row
\* whose 1-based row number is i.
ValidateRow(acc, row, rowNumber) ==
  LET campus    == trim(row[1])
      recipient == trim(row[2])
      lowerCaseEmail == toLowerCase(recipient)
      dup  == lowerCaseEmail \in acc.seenEmails
      acc1 == [acc EXCEPT
                 !.warnings = IF dup THEN Append(@, rowNumber) ELSE @,
                 !.duplicateEmails = IF dup THEN @ + 1 ELSE @,
                 !.seenEmails = @ \cup {lowerCaseEmail}]
  IN IF campus = <<>> /\ recipient = <<>>
     THEN [acc EXCEPT !.emptyRows = @ + 1]
     ELSE IF campus = <<>> \/ recipient = <<>>
     THEN [acc EXCEPT
             !.errors = Append(@, rowNumber),
             !.invalid = Append(@, [campus |-> campus, recipient |-> recipient,
                                    rowNumber |-> rowNumber])]
     ELSE IF SheetEmailRegexTest(recipient)
     THEN [acc1 EXCEPT
             !.valid = Append(@, [campus |-> toLowerCase(campus),
                                  recipient |-> recipient,
                                  rowNumber |-> rowNumber]),
             !.validEmails = @ + 1]
     ELSE [acc1 EXCEPT
             !.invalid = Append(@, [campus |-> campus, recipient |-> recipient,
                                    rowNumber |-> rowNumber]),
             !.errors = Append(@, rowNumber),
             !.invalidEmails = @ + 1]

RECURSIVE ValidateRows(_, _, _)
ValidateRows(data, i, acc) ==
  IF i > Len(data) THEN acc
  ELSE ValidateRows(data, i + 1, ValidateRow(acc, data[i], i))

\* validateEmailAddresses(data): data[1] is the header row, which is skipped.
\* errors and warnings hold the row numbers their messages name.
validateEmailAddresses(data) ==
  ValidateRows(data, 2,
    [valid |-> <<>>, invalid |-> <<>>, errors |-> <<>>, warnings |-> <<>>,
     totalRows |-> Len(data) - 1, validEmails |-> 0, invalidEmails |-> 0,
     emptyRows |-> 0, duplicateEmails |-> 0, seenEmails |-> {}])

\* A forEach body of handleDuplicateCampusEntries that warns of a repeated
\* pair and keeps it.
DuplicateStepKeepsRepeat(acc, entry) ==
  LET campus   == entry.campus
      isFirst  == ~Has(acc.campusFirstOccurrence, campus)
      first1   == IF isFirst
                  THEN Append(acc.campusFirstOccurrence,
                              [key |-> campus, val |-> entry.rowNumber])
                  ELSE acc.campusFirstOccurrence
      data1    == IF Has(acc.data, campus) THEN acc.data
                  ELSE Append(acc.data,
                              [key |-> campus, val |-> <<>>, isArray |-> TRUE])
      existing == data1[Index(data1, campus)].val
      firstRow == first1[Index(first1, campus)].val
      isDup    == entry.rowNumber # firstRow /\ Includes(existing, entry.recipient)
  IN [campusFirstOccurrence |-> first1,
      data |-> Put(data1, [key |-> campus,
                           val |-> Append(existing, entry.recipient),
                           isArray |-> TRUE]),
      duplicateWarnings |-> IF isDup
                            THEN Append(acc.duplicateWarnings, entry.rowNumber)
                            ELSE acc.duplicateWarnings]

\* One iteration of the forEach of handleDuplicateCampusEntries.
DuplicateStep(acc, entry) ==
  LET campus   == entry.campus
      isFirst  == ~Has(acc.campusFirstOccurrence, campus)
      first1   == IF isFirst
                  THEN Append(acc.campusFirstOccurrence,
                              [key |-> campus, val |-> entry.rowNumber])
                  ELSE acc.campusFirstOccurrence
      data1    == IF Has(acc.data, campus) THEN acc.data
                  ELSE Append(acc.data,
                              [key |-> campus, val |-> <<>>, isArray |-> TRUE])
      existing == data1[Index(data1, campus)].val
      data2    == Put(data1, [key |-> campus,
                              val |-> Append(existing, entry.recipient),
                              isArray |-> TRUE])
      firstRow == first1[Index(first1, campus)].val
      isDup    == entry.rowNumber # firstRow /\ Includes(existing, entry.recipient)
  IN [campusFirstOccurrence |-> first1,
      data |-> IF isDup THEN data1 ELSE data2,
      duplicateWarnings |-> IF isDup
                            THEN Append(acc.duplicateWarnings, entry.rowNumber)
                            ELSE acc.duplicateWarnings]

RECURSIVE DuplicateFold(_, _, _)
DuplicateFold(validEntries, i, acc) ==
  IF i > Len(validEntries) THEN acc
  ELSE DuplicateFold(validEntries, i + 1, DuplicateStep(acc, validEntries[i]))

\* handleDuplicateCampusEntries(validEntries): data is the campus -> recipients
\* map, duplicateWarnings the row numbers of the dropped entries.
handleDuplicateCampusEntries(validEntries) ==
  DuplicateFold(validEntries, 1,
    [campusFirstOccurrence |-> <<>>, data |-> <<>>, duplicateWarnings |-> <<>>])

\* String.prototype.includes: t occurs in s.
StringIncludes(s, t) ==
  \E a \in 0..(Len(s) - Len(t)) : SubSeq(s, a + 1, a + Len(t)) = t

Min3(a, b, c) ==
  IF a <= b /\ a <= c THEN a ELSE IF b <= c THEN b ELSE c

\* A row of the matrix filled without the substitution case.
RECURSIVE LevenshteinRowNoSubstitution(_, _, _, _, _)
LevenshteinRowNoSubstitution(str1, str2, i, prev, cur) ==
  IF Len(cur) > Len(str1) THEN cur
  ELSE LevenshteinRowNoSubstitution(str1, str2, i, prev,
         Append(cur,
            IF str2[i] = str1[Len(cur)] THEN prev[Len(cur)]
            ELSE Min3(prev[Len(cur) + 1] + 1, cur[Len(cur)] + 1,
                      prev[Len(cur) + 1] + 1)))

\* Row i of the matrix of calculateLevenshteinDistance.  A row is the
\* sequence of its columns 0, 1, ..: column j is its element j + 1.  prev is
\* row i - 1 and cur the columns of row i filled so far, so that the next
\* column to fill is j = Len(cur).
RECURSIVE LevenshteinRow(_, _, _, _, _)
LevenshteinRow(str1, str2, i, prev, cur) ==
  IF Len(cur) > Len(str1) THEN cur
  ELSE LevenshteinRow(str1, str2, i, prev,
         Append(cur,
            IF str2[i] = str1[Len(cur)] THEN prev[Len(cur)]
            ELSE Min3(prev[Len(cur)] + 1,        \* matrix[i - 1][j - 1] + 1
                      cur[Len(cur)] + 1,         \* matrix[i][j - 1] + 1
                      prev[Len(cur) + 1] + 1)))  \* matrix[i - 1][j] + 1

\* The matrix, row after row: matrix holds the rows 0 .. Len(matrix) - 1.
RECURSIVE LevenshteinRows(_, _, _)
LevenshteinRows(str1, str2, matrix) ==
  IF Len(matrix) > Len(str2) THEN matrix
  ELSE LevenshteinRows(str1, str2,
         Append(matrix,
                LevenshteinRow(str1, str2, Len(matrix), matrix[Len(matrix)],
                               <<Len(matrix)>>)))

\* calculateLevenshteinDistance(str1, str2): matrix[str2.length][str1.length]
calculateLevenshteinDistance(str1, str2) ==
  LevenshteinRows(str1, str2,
                  <<[j \in 1..(Len(str1) + 1) |-> j - 1]>>)[Len(str2) + 1][Len(str1) + 1]

\* The filter of validateCampusNames: the expected names that contain
\* campus, are contained in it, or are at distance 2 or less.
SuggestionsFor(campus, expectedCampuses) ==
  LET Similar(expected) ==
        \/ StringIncludes(expected, campus)
        \/ StringIncludes(campus, expected)
        \/ calculateLevenshteinDistance(campus, expected) <= 2
  IN SelectSeq(expectedCampuses, Similar)

\* One iteration of the forEach of validateCampusNames.
CampusNameStep(acc, entry, expectedCampuses) ==
  IF entry.campus \in acc.seenCampuses THEN acc
  ELSE IF Includes(expectedCampuses, entry.campus)
  THEN [acc EXCEPT
          !.seenCampuses = @ \cup {entry.campus},
          !.validCampuses = Append(@, [campus |-> entry.campus,
                                       rowNumber |-> entry.rowNumber])]
  ELSE LET suggestions == SuggestionsFor(entry.campus, expectedCampuses)
       IN [acc EXCEPT
             !.seenCampuses = @ \cup {entry.campus},
             !.invalidCampuses = Append(@, [campus |-> entry.campus,
                                            rowNumber |-> entry.rowNumber]),
             !.suggestions =
                IF suggestions # <<>>
                THEN Append(@, [campus |-> entry.campus,
                                suggestions |-> suggestions,
                                rowNumber |-> entry.rowNumber])
                ELSE @,
             !.warnings = Append(@, entry.rowNumber)]

RECURSIVE CampusNameFold(_, _, _, _)
CampusNameFold(validEntries, i, acc, expectedCampuses) ==
  IF i > Len(validEntries) THEN acc
  ELSE CampusNameFold(validEntries, i + 1,
         CampusNameStep(acc, validEntries[i], expectedCampuses),
         expectedCampuses)

\* The validationResults validateCampusNames starts from.
NoCampusNames ==
  [validCampuses |-> <<>>, invalidCampuses |-> <<>>, warnings |-> <<>>,
   suggestions |-> <<>>, seenCampuses |-> {}]

\* The body of validateCampusNames(validEntries), expectedCampuses being
\* Object.keys(MigrationManager.extractHardcodedData()) (line 1521).
\* warnings holds the row numbers its messages name.
validateCampusNamesFrom(validEntries, expectedCampuses) ==
  CampusNameFold(validEntries, 1, NoCampusNames, expectedCampuses)

\* validateCampusNames(validEntries)
validateCampusNames(validEntries) ==
  validateCampusNamesFrom(validEntries, Keys(HardcodedData))

\* ------------------------------------------------------------------------
\* The world the operations act on
\*
\* A world w is a record of the durable state:
\*   w.cd     the value under CAMPUS_DATA_KEY: kind "absent", "json" (a
\*            payload JSON.parse accepts, with its campusData entries, their
\*            strings as the JSON text holds them, and its migrationComplete
\*            field), "nomap" (a payload JSON.parse accepts that has no
\*            campusData object), "garbage" (a non-empty text JSON.parse
\*            rejects) or "empty" (the empty string)
\*   w.flag   the value under MIGRATION_COMPLETE_KEY: "true" or "absent"
\*   w.ts     whether LAST_UPDATED_KEY is set
\*   w.sheet  the Recipients sheet: exists, rows (each row two cells)
\*   w.ref    the CampusReferenceInfo sheet: exists, rows
\* An operation takes a world and the set F of I/O calls that fail during the
\* invocation, and returns the world it leaves, its return value and whether
\* it threw.
\* ------------------------------------------------------------------------

AbsentData == [kind |-> "absent", campusData |-> <<>>, migrationComplete |-> FALSE]

GarbageData == [kind |-> "garbage", campusData |-> <<>>, migrationComplete |-> FALSE]

\* The empty string under CAMPUS_DATA_KEY.
EmptyStringData == [kind |-> "empty", campusData |-> <<>>, migrationComplete |-> FALSE]

\* A parseable payload without the campusData object, such as {}.
NoMapData == [kind |-> "nomap", campusData |-> <<>>, migrationComplete |-> FALSE]

\* if (storedData): a missing property and the empty string are both falsy.
Falsy(cd) == cd.kind \in {"absent", "empty"}

\* JSON.parse(storedData) does not throw.
Parseable(cd) == cd.kind \in {"json", "nomap"}

\* The strings of one campusData entry: its key, its recipients, its link.
EntryStrings(e) ==
  {e.key, e.driveLink} \cup {e.recipients[j] : j \in 1..Len(e.recipients)}

\* Some string of the entries holds one of the characters.
HoldsAny(entries, chars) ==
  \E i \in 1..Len(entries) : \E s \in EntryStrings(entries[i]) :
    \E k \in 1..Len(s) : s[k] \in chars

\* The campusData entries as JSON.stringify writes them and as JSON.parse
\* reads them back: keys, recipients and drive links are JSON strings.
\* Entries without a character to escape are written as they are, and
\* entries without an escape are read as they are.
JSONStringifyEntries(entries) ==
  IF ~HoldsAny(entries, JSONEscaped) THEN entries
  ELSE [i \in 1..Len(entries) |->
          [entries[i] EXCEPT
             !.key = JSONQuote(@),
             !.recipients = [j \in 1..Len(@) |-> JSONQuote(@[j])],
             !.driveLink = JSONQuote(@)]]

JSONParseEntries(entries) ==
  IF ~HoldsAny(entries, {"\\"}) THEN entries
  ELSE [i \in 1..Len(entries) |->
          [entries[i] EXCEPT
             !.key = JSONUnquote(@),
             !.recipients = [j \in 1..Len(@) |-> JSONUnquote(@[j])],
             !.driveLink = JSONUnquote(@)]]

NoSheet == [exists |-> FALSE, rows |-> <<>>]

\* The I/O calls that may throw.
FaultPoints ==
  {"isMigrationComplete.getProperty", "storeCampusData.setProperty",
   "createSheet.insertSheet", "createSheet.setValue",
   "setMigrationComplete.setFlag", "setMigrationComplete.setTimestamp",
   "getCampusData.getProperty", "clearCache.deleteProperty",
   "batchReadSheetData.getValues", "readCampusReferenceInfo.getValues",
   "createSheetFromData.insertSheet"}

\* ---- PropertiesManager ----

\* An isMigrationComplete() that reads the payload's field only.
isMigrationCompleteByPayload(w, F) ==
  w.cd.kind = "json" /\ w.cd.migrationComplete = TRUE

\* isMigrationComplete(): the dedicated flag, else the migrationComplete field
\* of the stored payload; false when the store cannot be read.
isMigrationComplete(w, F) ==
  IF "isMigrationComplete.getProperty" \in F THEN FALSE
  ELSE LET isComplete == (w.flag = "true")
       IN IF ~isComplete /\ ~Falsy(w.cd)
          THEN IF Parseable(w.cd) THEN w.cd.migrationComplete = TRUE
               ELSE FALSE
          ELSE isComplete

\* The structure checks storeCampusData makes on one entry.
StoreEntryOk(e) == e.isObject /\ e.isArray /\ e.linkIsString

\* storeCampusData(campusData): campusData is [isObject, entries].
storeCampusData(w, F, campusData) ==
  IF \/ ~campusData.isObject
     \/ \E i \in 1..Len(campusData.entries) : ~StoreEntryOk(campusData.entries[i])
     \/ "storeCampusData.setProperty" \in F
  THEN [w |-> w, thrown |-> TRUE]
  ELSE [w |-> [w EXCEPT !.cd = [kind |-> "json",
                                campusData |->
                                  JSONStringifyEntries(campusData.entries),
                                migrationComplete |-> TRUE]],
        thrown |-> FALSE]

\* A clearCache() that deletes the flag with the payload.
clearCacheAndFlag(w, F) ==
  IF "clearCache.deleteProperty" \in F
  THEN [w |-> w, thrown |-> TRUE]
  ELSE [w |-> [w EXCEPT !.cd = AbsentData, !.flag = "absent"], thrown |-> FALSE]

\* A clearCache() that throws when there is nothing to delete.
clearCacheFailsOnEmpty(w, F) ==
  IF "clearCache.deleteProperty" \in F \/ w.cd = AbsentData
  THEN [w |-> w, thrown |-> TRUE]
  ELSE [w |-> [w EXCEPT !.cd = AbsentData], thrown |-> FALSE]

\* clearCache()
clearCache(w, F) ==
  IF "clearCache.deleteProperty" \in F
  THEN [w |-> w, thrown |-> TRUE]
  ELSE [w |-> [w EXCEPT !.cd = AbsentData], thrown |-> FALSE]

\* validateCacheData(data).isValid for a parsed payload that has a campusData
\* object, on the entries of that object.
validateCacheData(entries) ==
  \A i \in 1..Len(entries) :
    LET e == entries[i]
    IN /\ e.isObject
       /\ e.isArray
       /\ e.linkIsString
       /\ \A j \in 1..Len(e.recipients) : CacheEmailRegexTest(e.recipients[j])

\* A getCampusData() that returns null for a corrupt payload and leaves it.
getCampusDataKeepsCorrupt(w, F) ==
  LET null == [isNull |-> TRUE, entries |-> <<>>]
  IN IF \/ "getCampusData.getProperty" \in F
        \/ Falsy(w.cd)
        \/ ~Parseable(w.cd)
        \/ w.cd.kind = "nomap"
        \/ \E data \in {JSONParseEntries(w.cd.campusData)} :
             ~validateCacheData(data)
     THEN [w |-> w, ret |-> null]
     ELSE [w |-> w, ret |-> [isNull |-> FALSE,
                             entries |-> JSONParseEntries(w.cd.campusData)]]

\* A getCampusData() that deletes the payload it returns.
getCampusDataReadsOnce(w, F) ==
  LET null == [isNull |-> TRUE, entries |-> <<>>]
  IN IF "getCampusData.getProperty" \in F THEN [w |-> w, ret |-> null]
     ELSE IF Falsy(w.cd) THEN [w |-> w, ret |-> null]
     ELSE IF \/ ~Parseable(w.cd)
             \/ w.cd.kind = "nomap"
             \/ \E data \in {JSONParseEntries(w.cd.campusData)} :
                  ~validateCacheData(data)
     THEN [w |-> clearCache(w, F).w, ret |-> null]
     ELSE [w |-> clearCache(w, F).w,
           ret |-> [isNull |-> FALSE,
                    entries |-> JSONParseEntries(w.cd.campusData)]]

\* getCampusData(): ret.isNull, or ret.entries the cached campusData.
getCampusData(w, F) ==
  LET null == [isNull |-> TRUE, entries |-> <<>>]
  IN IF "getCampusData.getProperty" \in F THEN [w |-> w, ret |-> null]
     ELSE IF Falsy(w.cd) THEN [w |-> w, ret |-> null]
     ELSE IF \/ ~Parseable(w.cd)
             \/ w.cd.kind = "nomap"
             \/ \E data \in {JSONParseEntries(w.cd.campusData)} :
                  ~validateCacheData(data)
     THEN [w |-> clearCache(w, F).w, ret |-> null]
     ELSE [w |-> w, ret |-> [isNull |-> FALSE,
                             entries |-> JSONParseEntries(w.cd.campusData)]]

\* setMigrationComplete()
setMigrationComplete(w, F) ==
  IF "setMigrationComplete.setFlag" \in F THEN [w |-> w, thrown |-> TRUE]
  ELSE LET w1 == [w EXCEPT !.flag = "true"]
       IN IF "setMigrationComplete.setTimestamp" \in F
          THEN [w |-> w1, thrown |-> TRUE]
          ELSE LET w2 == [w1 EXCEPT !.ts = TRUE]
               IN IF Parseable(w2.cd)
                  THEN [w |-> [w2 EXCEPT !.cd.migrationComplete = TRUE],
                        thrown |-> FALSE]
                  ELSE [w |-> w2, thrown |-> FALSE]

\* ---- the Recipients sheet ----

\* sheet.getLastRow(): the last row holding content (0 for a blank sheet).
getLastRow(rows) ==
  LET used == {i \in 1..Len(rows) : rows[i][1] # <<>> \/ rows[i][2] # <<>>}
  IN IF used = {} THEN 0 ELSE CHOOSE i \in used : \A j \in used : j <= i

\* sheet.getLastColumn(): the last column holding content.
getLastColumn(rows) ==
  IF \E i \in 1..Len(rows) : rows[i][2] # <<>> THEN 2
  ELSE IF \E i \in 1..Len(rows) : rows[i][1] # <<>> THEN 1
  ELSE 0

\* sheetExists()
sheetExists(w) == w.sheet.exists

\* The rows createSheet and createSheetFromData write below the header: one
\* per (campus, recipient) pair, campuses in key order; an entry whose value
\* is not an array writes nothing.
RECURSIVE PairRows(_)
PairRows(data) ==
  IF data = <<>> THEN <<>>
  ELSE (IF Head(data).isArray
        THEN [j \in 1..Len(Head(data).val) |-> <<Head(data).key, Head(data).val[j]>>]
        ELSE <<>>)
       \o PairRows(Tail(data))

HeaderRow == <<CAMPUS_COLUMN, RECIPIENT_COLUMN>>

\* batchReadSheetData()
batchReadSheetData(w, F) ==
  LET failed == [success |-> FALSE, data |-> <<>>, isEmpty |-> FALSE,
                 hasValidHeaders |-> FALSE, dataRows |-> 0]
      rows    == w.sheet.rows
      lastRow == getLastRow(rows)
      data    == SubSeq(rows, 1, lastRow)
  IN IF ~w.sheet.exists THEN failed
     ELSE IF lastRow <= 1 \/ getLastColumn(rows) < 2
     THEN [success |-> TRUE, data |-> <<>>, isEmpty |-> TRUE,
           hasValidHeaders |-> FALSE, dataRows |-> 0]
     ELSE IF "batchReadSheetData.getValues" \in F THEN failed
     ELSE [success |-> TRUE, data |-> data, isEmpty |-> FALSE,
           hasValidHeaders |-> /\ trim(data[1][1]) = CAMPUS_COLUMN
                               /\ trim(data[1][2]) = RECIPIENT_COLUMN,
           dataRows |-> Len(data) - 1]

\* readRecipientsDataOptimized(): the campus -> recipients map of the valid
\* rows, to which the code adds the key _validationResults holding an object
\* (lines 1780-1793).  An empty or unreadable sheet gives the empty map.
readRecipientsDataOptimized(w, F) ==
  LET batchResult == batchReadSheetData(w, F)
  IN IF ~batchResult.success \/ batchResult.isEmpty THEN <<>>
     ELSE LET validationResults == validateEmailAddresses(batchResult.data)
              duplicateHandling ==
                handleDuplicateCampusEntries(validationResults.valid)
          IN Put(duplicateHandling.data,
                 [key |-> VALIDATION_RESULTS_KEY, val |-> <<>>, isArray |-> FALSE])

\* createSheet(initialData)
createSheet(w, F, initialData) ==
  IF w.sheet.exists THEN [w |-> w, thrown |-> FALSE]
  ELSE IF "createSheet.insertSheet" \in F THEN [w |-> w, thrown |-> TRUE]
  ELSE IF "createSheet.setValue" \in F
  THEN [w |-> [w EXCEPT !.sheet = [exists |-> TRUE, rows |-> <<>>]],
        thrown |-> TRUE]
  ELSE [w |-> [w EXCEPT !.sheet = [exists |-> TRUE,
                                   rows |-> <<HeaderRow>> \o PairRows(initialData)]],
        thrown |-> FALSE]

\* createSheetFromData(data, dataSource)
createSheetFromData(w, F, data) ==
  IF "createSheetFromData.insertSheet" \in F
  THEN [w |-> [w EXCEPT !.sheet = NoSheet], thrown |-> TRUE]
  ELSE [w |-> [w EXCEPT !.sheet = [exists |-> TRUE,
                                   rows |-> <<HeaderRow>> \o PairRows(data)]],
        thrown |-> FALSE]

\* ---- MigrationManager ----

\* extractHardcodedData()
extractHardcodedData == HardcodedData

\* getHardcodedDriveLinks()
getHardcodedDriveLinks == HardcodedDriveLinks

\* The loop of readCampusReferenceInfo over the rows below the header.
RECURSIVE ReferenceRows(_, _, _)
ReferenceRows(data, i, driveData) ==
  IF i > Len(data) THEN driveData
  ELSE LET campus  == trim(toLowerCase(data[i][1]))
           driveId == trim(data[i][2])
       IN ReferenceRows(data, i + 1,
            IF campus # <<>> /\ driveId # <<>>
            THEN Put(driveData, [key |-> campus, val |-> driveId])
            ELSE driveData)

\* A readCampusReferenceInfo() that returns no folder ids when the sheet is
\* missing or reading it throws.
readCampusReferenceInfoNoFallback(w, F) ==
  IF ~w.ref.exists \/ "readCampusReferenceInfo.getValues" \in F
  THEN <<>>
  ELSE ReferenceRows(w.ref.rows, 2, <<>>)

\* readCampusReferenceInfo(): campus -> folder id, from the reference sheet,
\* or the hardcoded links when the sheet is missing or reading it throws.
readCampusReferenceInfo(w, F) ==
  IF ~w.ref.exists \/ "readCampusReferenceInfo.getValues" \in F
  THEN getHardcodedDriveLinks
  ELSE ReferenceRows(w.ref.rows, 2, <<>>)

\* driveData[campus] || ''
DriveLinkOf(driveData, campus) ==
  IF Has(driveData, campus) THEN driveData[Index(driveData, campus)].val ELSE <<>>

\* Combined entry of a Directory: campus -> {recipients, driveLink}.
DirEntry(campus, recipients, isArray, driveLink) ==
  [key |-> campus, isObject |-> TRUE, recipients |-> recipients,
   isArray |-> isArray, driveLink |-> driveLink, linkIsString |-> TRUE]

\* The Combining loop of performMigration (lines 232-238): one entry per key of
\* hardcodedData.
CombineHardcoded(hardcodedData, driveData) ==
  [i \in 1..Len(hardcodedData) |->
     DirEntry(hardcodedData[i].key, hardcodedData[i].val,
              hardcodedData[i].isArray,
              DriveLinkOf(driveData, hardcodedData[i].key))]

\* A createRecipientsSheet that rebuilds the sheet whether or not it exists.
createRecipientsSheetRebuilds(w, F, campusData) ==
  IF "createSheet.insertSheet" \in F THEN [w |-> w, thrown |-> TRUE]
  ELSE [w |-> [w EXCEPT !.sheet = [exists |-> TRUE,
                                   rows |-> <<HeaderRow>> \o PairRows(campusData)]],
        thrown |-> FALSE]

\* A createRecipientsSheet that catches what createSheet throws.
createRecipientsSheetCatches(w, F, campusData) ==
  IF sheetExists(w) THEN [w |-> w, thrown |-> FALSE]
  ELSE [w |-> createSheet(w, F, campusData).w, thrown |-> FALSE]

\* createRecipientsSheet(campusData)
createRecipientsSheet(w, F, campusData) ==
  IF sheetExists(w) THEN [w |-> w, thrown |-> FALSE]
  ELSE createSheet(w, F, campusData)

\* performMigration(): ret is the value returned, ran whether the completion
\* guard let the migration start, step the step that threw.
performMigration(w, F) ==
  IF isMigrationComplete(w, F)
  THEN [w |-> w, ret |-> FALSE, thrown |-> FALSE, ran |-> FALSE, step |-> "none"]
  ELSE
    LET hardcodedData == extractHardcodedData
        driveData     == readCampusReferenceInfo(w, F)
        combinedData  == CombineHardcoded(hardcodedData, driveData)
        stored   == storeCampusData(w, F, [isObject |-> TRUE, entries |-> combinedData])
        mirrored == createRecipientsSheet(stored.w, F, hardcodedData)
        marked   == setMigrationComplete(mirrored.w, F)
    IN IF stored.thrown
       THEN [w |-> stored.w, ret |-> FALSE, thrown |-> TRUE, ran |-> TRUE,
             step |-> "store_properties"]
       ELSE IF mirrored.thrown
       THEN [w |-> mirrored.w, ret |-> FALSE, thrown |-> TRUE, ran |-> TRUE,
             step |-> "create_sheet"]
       ELSE IF marked.thrown
       THEN [w |-> marked.w, ret |-> FALSE, thrown |-> TRUE, ran |-> TRUE,
             step |-> "mark_complete"]
       ELSE [w |-> marked.w, ret |-> TRUE, thrown |-> FALSE, ran |-> TRUE,
             step |-> "none"]

\* ---- Recovery (RecipientsSheetManager) ----

Outcome(w, success, action) == [w |-> w, success |-> success, action |-> action]

\* The campus -> recipients map recoverRecipientsSheet extracts from the
\* cached Directory (lines 1871-1876).
RECURSIVE RecipientDataOf(_)
RecipientDataOf(cachedData) ==
  IF cachedData = <<>> THEN <<>>
  ELSE (IF Head(cachedData).isArray
        THEN <<[key |-> Head(cachedData).key, val |-> Head(cachedData).recipients,
                isArray |-> TRUE]>>
        ELSE <<>>)
       \o RecipientDataOf(Tail(cachedData))

\* A recovery that takes the seed table first and the cached Directory only
\* when the seed table is empty.
recoverSeedFirst(w, F, hardcodedData) ==
  LET batchResult == batchReadSheetData(w, F)
      cached      == getCampusData(w, F)
      w1          == cached.w
      recipientData == RecipientDataOf(cached.ret.entries)
  IN IF /\ sheetExists(w)
        /\ batchResult.success /\ ~batchResult.isEmpty
        /\ batchResult.hasValidHeaders
     THEN Outcome(w, TRUE, "no_recovery_needed")
     ELSE IF hardcodedData # <<>>
     THEN LET made == createSheetFromData(w1, F, hardcodedData)
          IN IF made.thrown THEN Outcome(made.w, FALSE, "recovery_failed")
             ELSE Outcome(made.w, TRUE, "recovered_from_hardcoded")
     ELSE IF recipientData = <<>>
     THEN Outcome(w1, FALSE, "recovery_failed")
     ELSE LET made == createSheetFromData(w1, F, recipientData)
          IN IF made.thrown THEN Outcome(made.w, FALSE, "recovery_failed")
             ELSE Outcome(made.w, TRUE, "recovered_from_cache")

\* What recoverRecipientsSheet returns once createSheetFromData has run: an
\* error thrown there is caught at lines 1895-1905.
RecoveryOutcome(made, action) ==
  IF made.thrown THEN Outcome(made.w, FALSE, "recovery_failed")
  ELSE Outcome(made.w, TRUE, action)

\* Recovery from the cached Directory (lines 1869-1893), recipientData being
\* the map extracted from it.
RecoverFromCache(w, F, recipientData) ==
  IF recipientData = <<>> THEN Outcome(w, FALSE, "recovery_failed")
  ELSE RecoveryOutcome(createSheetFromData(w, F, recipientData),
                       "recovered_from_cache")

\* The choice of the recovery source (lines 1843-1893), cached being what
\* getCampusData() has returned.
RecoverFromSources(cached, F, hardcodedData) ==
  IF cached.ret.isNull \/ cached.ret.entries = <<>>
  THEN IF hardcodedData = <<>>
       THEN Outcome(cached.w, FALSE, "recovery_failed")
       ELSE RecoveryOutcome(createSheetFromData(cached.w, F, hardcodedData),
                            "recovered_from_hardcoded")
  ELSE RecoverFromCache(cached.w, F, RecipientDataOf(cached.ret.entries))

\* The body of recoverRecipientsSheet(), hardcodedData being what
\* MigrationManager.extractHardcodedData() returns (line 1850).
recoverRecipientsSheetFrom(w, F, hardcodedData) ==
  LET batchResult == batchReadSheetData(w, F)
  IN IF /\ sheetExists(w)
        /\ batchResult.success /\ ~batchResult.isEmpty
        /\ batchResult.hasValidHeaders
     THEN Outcome(w, TRUE, "no_recovery_needed")
     ELSE RecoverFromSources(getCampusData(w, F), F, hardcodedData)

\* recoverRecipientsSheet()
recoverRecipientsSheet(w, F) ==
  recoverRecipientsSheetFrom(w, F, extractHardcodedData)

\* A validateAndRecoverSheet() that recovers a missing sheet only.
validateAndRecoverMissingOnly(w, F) ==
  IF ~sheetExists(w) THEN recoverRecipientsSheet(w, F)
  ELSE Outcome(w, TRUE, "validation_passed")

\* A validateAndRecoverSheet() that starts the recovery as soon as one row
\* is invalid.
validateAndRecoverAnyInvalid(w, F) ==
  LET batchResult == batchReadSheetData(w, F)
      validationResults == validateEmailAddresses(batchResult.data)
  IN IF \/ ~sheetExists(w)
        \/ ~batchResult.success
        \/ batchResult.isEmpty
        \/ ~batchResult.hasValidHeaders
        \/ validationResults.invalid # <<>>
     THEN recoverRecipientsSheet(w, F)
     ELSE Outcome(w, TRUE, "validation_passed")

\* validateAndRecoverSheet()
validateAndRecoverSheet(w, F) ==
  LET batchResult == batchReadSheetData(w, F)
      validationResults == validateEmailAddresses(batchResult.data)
  IN IF \/ ~sheetExists(w)
        \/ ~batchResult.success
        \/ batchResult.isEmpty
        \/ ~batchResult.hasValidHeaders
        \/ validationResults.valid = <<>> /\ validationResults.invalid # <<>>
     THEN recoverRecipientsSheet(w, F)
     ELSE Outcome(w, TRUE, "validation_passed")

\* ---- Lookup (getInfoByCampus) and cache refresh ----

\* The two Combining loops shared by getInfoByCampus (lines 2400-2416) and
\* refreshCampusCache (lines 3312-3328): one entry per key of recipientsData,
\* then one with empty recipients per key found only in driveData.
RECURSIVE DriveOnly(_, _)
DriveOnly(driveData, combinedData) ==
  IF driveData = <<>> THEN combinedData
  ELSE DriveOnly(Tail(driveData),
         IF Has(combinedData, Head(driveData).key) THEN combinedData
         ELSE Append(combinedData,
                     DirEntry(Head(driveData).key, <<>>, TRUE, Head(driveData).val)))

CombineRecipients(recipientsData, driveData) ==
  DriveOnly(driveData,
    [i \in 1..Len(recipientsData) |->
       DirEntry(recipientsData[i].key, recipientsData[i].val,
                recipientsData[i].isArray,
                DriveLinkOf(driveData, recipientsData[i].key))])

EmptyInfo == [recipients |-> <<>>, driveLink |-> <<>>]

\* campusData[normalizedCampus] turned into the returned record
\* (lines 2431-2477).
LookupCampus(campusData, normalizedCampus) ==
  IF ~Has(campusData, normalizedCampus) THEN EmptyInfo
  ELSE LET campusInfo == campusData[Index(campusData, normalizedCampus)]
       IN [recipients |-> IF campusInfo.isArray THEN campusInfo.recipients ELSE <<>>,
           driveLink  |-> IF campusInfo.linkIsString THEN campusInfo.driveLink ELSE <<>>]

\* A catch of getInfoByCampus that throws the error on.
CaughtInfoRethrown(w, migration, cacheHit, sheetRead) ==
  [w |-> w, thrown |-> TRUE, info |-> EmptyInfo, migration |-> migration,
   cacheHit |-> cacheHit, sheetRead |-> sheetRead, failed |-> TRUE]

\* What the catch of getInfoByCampus returns (lines 2499-2517).
CaughtInfo(w, migration, cacheHit, sheetRead) ==
  [w |-> w, thrown |-> FALSE, info |-> EmptyInfo, migration |-> migration,
   cacheHit |-> cacheHit, sheetRead |-> sheetRead, failed |-> TRUE]

\* getInfoByCampus(campusValue): campusValue is [isString, s].  info is the
\* record returned; migration tells whether performMigration was called and
\* what it did, cacheHit whether getCampusData returned a Directory,
\* sheetRead whether the Recipients sheet was read for a refresh, failed
\* whether the catch block produced the result.
getInfoByCampus(w, F, campusValue) ==
  LET noMigration == [called |-> FALSE, ran |-> FALSE, thrown |-> FALSE,
                      step |-> "none"]
  IN IF ~campusValue.isString \/ campusValue.s = <<>>
     THEN [w |-> w, thrown |-> FALSE, info |-> EmptyInfo,
           migration |-> noMigration, cacheHit |-> FALSE, sheetRead |-> FALSE,
           failed |-> FALSE]
     ELSE
       LET needed    == ~isMigrationComplete(w, F)
           migrated  == performMigration(w, F)
           migration == IF needed
                        THEN [called |-> TRUE, ran |-> migrated.ran,
                              thrown |-> migrated.thrown, step |-> migrated.step]
                        ELSE noMigration
           w1        == IF needed THEN migrated.w ELSE w
           normalizedCampus == trim(toLowerCase(campusValue.s))
           cached    == getCampusData(w1, F)
           recovery  == validateAndRecoverSheet(cached.w, F)
           w2        == recovery.w
           recipientsData == readRecipientsDataOptimized(w2, F)
           driveData == readCampusReferenceInfo(w2, F)
           combinedData == CombineRecipients(recipientsData, driveData)
           stored    == storeCampusData(w2, F, [isObject |-> TRUE,
                                                entries |-> combinedData])
       IN IF needed /\ migrated.thrown
          THEN CaughtInfo(w1, migration, FALSE, FALSE)
          ELSE IF ~cached.ret.isNull
          THEN [w |-> cached.w, thrown |-> FALSE,
                info |-> LookupCampus(cached.ret.entries, normalizedCampus),
                migration |-> migration, cacheHit |-> TRUE, sheetRead |-> FALSE,
                failed |-> FALSE]
          ELSE IF stored.thrown
          THEN CaughtInfo(stored.w, migration, FALSE, TRUE)
          ELSE [w |-> stored.w, thrown |-> FALSE,
                info |-> LookupCampus(combinedData, normalizedCampus),
                migration |-> migration, cacheHit |-> FALSE, sheetRead |-> TRUE,
                failed |-> FALSE]

\* handleRecipientsSheetEdit(e): clearCache, tried once more when it throws.
handleRecipientsSheetEdit(w, F) ==
  LET first == clearCache(w, F)
  IN IF first.thrown THEN clearCache(first.w, F).w ELSE first.w

\* An onEdit(e) that handles the edit of any sheet.
onEditAnySheet(w, F, sheetName) == handleRecipientsSheetEdit(w, F)

\* onEdit(e): only an edit of the Recipients sheet is handled.
onEdit(w, F, sheetName) ==
  IF sheetName # SHEET_NAME THEN w ELSE handleRecipientsSheetEdit(w, F)

\* refreshCampusCache()
refreshCampusCache(w, F) ==
  LET cleared == clearCache(w, F)
      recipientsData == readRecipientsDataOptimized(cleared.w, F)
      driveData == readCampusReferenceInfo(cleared.w, F)
      combinedData == CombineRecipients(recipientsData, driveData)
      stored == storeCampusData(cleared.w, F, [isObject |-> TRUE,
                                               entries |-> combinedData])
  IN IF cleared.thrown THEN [w |-> cleared.w, success |-> FALSE]
     ELSE IF stored.thrown THEN [w |-> stored.w, success |-> FALSE]
     ELSE [w |-> stored.w, success |-> TRUE]

\* ------------------------------------------------------------------------
\* Telemetry: the logs and summaries kept in the script properties
\* migrationLogs, migrationSummary, runtimeLogs, runtimeStats and
\* cacheInvalidationEvents.  A log entry holds its timestamp, its step or
\* operation, its status or level and the duration and error of its data;
\* the message text is left out.  t is the record of the five properties
\* and of the clock new Date() reads, which every log call moves on by one.
\* ------------------------------------------------------------------------

\* logs.slice(0, 50), logs.slice(0, 100), events.slice(0, 10) and
\* performanceMetrics[step].slice(-10)
MIGRATION_LOG_LIMIT == 50
RUNTIME_LOG_LIMIT == 100
INVALIDATION_EVENT_LIMIT == 10
PERFORMANCE_ENTRY_LIMIT == 10

\* A number or null.
NullNumber == [isNull |-> TRUE, n |-> 0]
Number(n) == [isNull |-> FALSE, n |-> n]

\* The data argument of a log call that has no data ({} by default).
NoLogData ==
  [hasDuration |-> FALSE, duration |-> 0, hasError |-> FALSE, error |-> <<>>]

\* { duration, ... }
DurationData(duration) ==
  [NoLogData EXCEPT !.hasDuration = TRUE, !.duration = duration]

\* { duration, error: error.message, ... }
ErrorData(duration, message) ==
  [hasDuration |-> TRUE, duration |-> duration,
   hasError |-> TRUE, error |-> message]

\* A property that holds a log: it is absent, holds the JSON text of an
\* array of entries, holds the JSON text of an object that is not an array,
\* or holds text JSON.parse rejects.
AbsentLog == [kind |-> "absent", entries |-> <<>>]
ArrayLog(entries) == [kind |-> "array", entries |-> entries]
ObjectLog == [kind |-> "object", entries |-> <<>>]
GarbageLog == [kind |-> "garbage", entries |-> <<>>]

\* logs.unshift(logEntry)
unshift(logs, logEntry) == <<logEntry>> \o logs

\* logs.slice(0, limit)
slice(logs, limit) ==
  SubSeq(logs, 1, IF Len(logs) < limit THEN Len(logs) ELSE limit)

\* list.slice(-limit)
sliceLast(list, limit) ==
  SubSeq(list, IF Len(list) > limit THEN Len(list) - limit + 1 ELSE 1,
         Len(list))

\* str.substring(0, limit)
substring(str, limit) ==
  SubSeq(str, 1, IF Len(str) < limit THEN Len(str) ELSE limit)

\* The try block that stores a log entry: getProperty, JSON.parse, unshift,
\* slice and setProperty (lines 55-68, 628-641 and 3246-3259).  thrown tells
\* whether the block was left by an exception.
PrependToLog(existingLogs, logEntry, limit, F, getFault, setFault) ==
  IF \/ getFault \in F
     \/ existingLogs.kind = "garbage"
     \/ existingLogs.kind = "object"
     \/ setFault \in F
  THEN [logs |-> existingLogs, thrown |-> TRUE]
  ELSE [logs |-> ArrayLog(slice(unshift(existingLogs.entries, logEntry),
                                limit)),
        thrown |-> FALSE]

\* The summary updateMigrationSummary starts from (lines 89-99).
DefaultSummary ==
  [kind |-> "object", lastMigrationAttempt |-> NullNumber,
   lastSuccessfulMigration |-> NullNumber, totalAttempts |-> 0,
   successfulMigrations |-> 0, failedMigrations |-> 0, warningsCount |-> 0,
   stepsCompleted |-> <<>>,
   lastError |-> [isNull |-> TRUE, step |-> "", timestamp |-> 0],
   performanceMetrics |-> <<>>]

AbsentSummary == [DefaultSummary EXCEPT !.kind = "absent"]

\* A migrationSummary JSON.parse rejects.
GarbageSummary == [DefaultSummary EXCEPT !.kind = "garbage"]

\* m[k] of a map of numbers or lists, with the value to use when k is not
\* a key.
ValueOr(m, k, default) == IF Has(m, k) THEN m[Index(m, k)].val ELSE default

\* updateMigrationSummary(step, status, data), at time now: the property
\* migrationSummary afterwards.  Its catch (lines 143-145) leaves the stored
\* summary as it was.
updateMigrationSummary(existingSummary, F, step, status, data, now) ==
  LET summary == IF existingSummary.kind = "object" THEN existingSummary
                 ELSE DefaultSummary
      attempted ==
        IF step = "migration_start"
        THEN [summary EXCEPT !.lastMigrationAttempt = Number(now),
                             !.totalAttempts = @ + 1]
        ELSE summary
      completed ==
        [attempted EXCEPT
           !.stepsCompleted = Put(@, [key |-> step, val |-> now]),
           !.lastSuccessfulMigration =
              IF step = "migration_complete" THEN Number(now) ELSE @,
           !.successfulMigrations =
              IF step = "migration_complete" THEN @ + 1 ELSE @]
      failed ==
        [attempted EXCEPT
           !.lastError = [isNull |-> FALSE, step |-> step, timestamp |-> now],
           !.failedMigrations =
              IF step = "migration_complete" THEN @ + 1 ELSE @]
      counted ==
        IF status = "success" THEN completed
        ELSE IF status = "error" THEN failed
        ELSE IF status = "warning"
        THEN [attempted EXCEPT !.warningsCount = @ + 1]
        ELSE attempted
      timed ==
        IF data.hasDuration /\ data.duration # 0
        THEN [counted EXCEPT
                !.performanceMetrics =
                   Put(@, [key |-> step,
                           val |-> sliceLast(
                                     Append(ValueOr(@, step, <<>>),
                                            [duration |-> data.duration,
                                             timestamp |-> now]),
                                     PERFORMANCE_ENTRY_LIMIT)])]
        ELSE counted
  IN IF \/ "updateMigrationSummary.getProperty" \in F
        \/ existingSummary.kind = "garbage"
        \/ "updateMigrationSummary.setProperty" \in F
     THEN existingSummary
     ELSE timed

\* The try block of logMigrationStatus (lines 55-72).
StoreMigrationLog(t, F, step, status, data) ==
  LET logEntry == [timestamp |-> t.now, step |-> step, status |-> status,
                   data |-> data]
      stored == PrependToLog(t.migrationLogs, logEntry, MIGRATION_LOG_LIMIT, F,
                             "logMigrationStatus.getProperty",
                             "logMigrationStatus.setProperty")
  IN IF stored.thrown
     THEN [t |-> [t EXCEPT !.now = @ + 1], thrown |-> TRUE]
     ELSE [t |-> [t EXCEPT
                    !.now = @ + 1,
                    !.migrationLogs = stored.logs,
                    !.migrationSummary =
                       updateMigrationSummary(@, F, step, status, data,
                                              t.now)],
           thrown |-> FALSE]

\* MigrationManager.logMigrationStatus(step, status, message, data): what
\* its try block throws is caught (lines 74-77).
logMigrationStatus(t, F, step, status, data) ==
  [t |-> StoreMigrationLog(t, F, step, status, data).t, thrown |-> FALSE]

\* The statistics updateRuntimeStats starts from (lines 662-672).
DefaultStats ==
  [kind |-> "object", cacheHits |-> 0, cacheMisses |-> 0,
   validationErrors |-> 0, validationWarnings |-> 0, sheetAccesses |-> 0,
   lastActivity |-> NullNumber, operationCounts |-> <<>>,
   performanceMetrics |-> <<>>, errorPatterns |-> <<>>]

AbsentStats == [DefaultStats EXCEPT !.kind = "absent"]

\* A runtimeStats JSON.parse rejects.
GarbageStats == [DefaultStats EXCEPT !.kind = "garbage"]

\* The metric of an operation without one (lines 709-715); averageTime is
\* kept as the quotient num / den.
NoMetric ==
  [totalTime |-> 0, count |-> 0, averageTime |-> [num |-> 0, den |-> 1],
   minTime |-> NullNumber, maxTime |-> NullNumber]

\* Lines 718-729: the duration is folded into the metric.
FoldDuration(metric, duration) ==
  [totalTime |-> metric.totalTime + duration,
   count |-> metric.count + 1,
   averageTime |-> [num |-> metric.totalTime + duration,
                    den |-> metric.count + 1],
   minTime |-> IF metric.minTime.isNull \/ duration < metric.minTime.n
               THEN Number(duration) ELSE metric.minTime,
   maxTime |-> IF metric.maxTime.isNull \/ duration > metric.maxTime.n
               THEN Number(duration) ELSE metric.maxTime]

\* The pattern of an error without one (lines 736-740).
NoPattern == [count |-> 0, lastOccurrence |-> NullNumber, operations |-> <<>>]

\* updateRuntimeStats(operation, level, data), at time now: the property
\* runtimeStats afterwards.  Its catch (lines 751-753) leaves the stored
\* statistics as they were.
updateRuntimeStats(existingStats, F, operation, level, data, now) ==
  LET stats == IF existingStats.kind = "object" THEN existingStats
               ELSE DefaultStats
      counted ==
        [stats EXCEPT
           !.lastActivity = Number(now),
           !.operationCounts =
              Put(@, [key |-> operation, val |-> ValueOr(@, operation, 0) + 1]),
           !.cacheHits = IF operation = "cache_hit" THEN @ + 1 ELSE @,
           !.cacheMisses = IF operation = "cache_miss" THEN @ + 1 ELSE @,
           !.validationErrors =
              IF operation = "validation_error" THEN @ + 1 ELSE @,
           !.validationWarnings =
              IF operation = "validation_warning" THEN @ + 1 ELSE @,
           !.sheetAccesses = IF operation = "sheet_access" THEN @ + 1 ELSE @]
      timed ==
        IF data.hasDuration /\ data.duration # 0
        THEN [counted EXCEPT
                !.performanceMetrics =
                   Put(@, [key |-> operation,
                           val |-> FoldDuration(ValueOr(@, operation, NoMetric),
                                                data.duration)])]
        ELSE counted
      errorKey == substring(data.error, 50)
      pattern == ValueOr(timed.errorPatterns, errorKey, NoPattern)
      patterned ==
        IF level = "error" /\ data.hasError /\ data.error # <<>>
        THEN [timed EXCEPT
                !.errorPatterns =
                   Put(@, [key |-> errorKey,
                           val |-> [count |-> pattern.count + 1,
                                    lastOccurrence |-> Number(now),
                                    operations |->
                                      IF Includes(pattern.operations, operation)
                                      THEN pattern.operations
                                      ELSE Append(pattern.operations,
                                                  operation)]])]
        ELSE timed
  IN IF \/ "updateRuntimeStats.getProperty" \in F
        \/ existingStats.kind = "garbage"
        \/ "updateRuntimeStats.setProperty" \in F
     THEN existingStats
     ELSE patterned

\* The try block of logRuntimeOperation (lines 628-645).
StoreRuntimeLog(t, F, operation, level, data) ==
  LET logEntry == [timestamp |-> t.now, operation |-> operation,
                   level |-> level, data |-> data]
      stored == PrependToLog(t.runtimeLogs, logEntry, RUNTIME_LOG_LIMIT, F,
                             "logRuntimeOperation.getProperty",
                             "logRuntimeOperation.setProperty")
  IN IF stored.thrown
     THEN [t |-> [t EXCEPT !.now = @ + 1], thrown |-> TRUE]
     ELSE [t |-> [t EXCEPT
                    !.now = @ + 1,
                    !.runtimeLogs = stored.logs,
                    !.runtimeStats =
                       updateRuntimeStats(@, F, operation, level, data, t.now)],
           thrown |-> FALSE]

\* A logRuntimeOperation without its catch.
logRuntimeOperationUncaught(t, F, operation, level, data) ==
  StoreRuntimeLog(t, F, operation, level, data)

\* PropertiesManager.logRuntimeOperation(operation, level, message, data):
\* what its try block throws is caught (lines 647-650).
logRuntimeOperation(t, F, operation, level, data) ==
  [t |-> StoreRuntimeLog(t, F, operation, level, data).t, thrown |-> FALSE]

\* A call of logRuntimeOperation.
LogCall(operation, level, data) ==
  [operation |-> operation, level |-> level, data |-> data]

\* The calls of logRuntimeOperation made one after the other, up to the
\* first that throws.
RECURSIVE LogAll(_, _, _)
LogAll(t, F, calls) ==
  IF calls = <<>> THEN [t |-> t, thrown |-> FALSE]
  ELSE LET logged == logRuntimeOperation(t, F, Head(calls).operation,
                                         Head(calls).level, Head(calls).data)
       IN IF logged.thrown THEN logged ELSE LogAll(logged.t, F, Tail(calls))

\* The calls of logRuntimeOperation that getInfoByCampus(campusValue) and the
\* getCampusData() inside it make after the first one, when the migration is
\* complete and getCampusData returns the Directory campusData (lines
\* 2353-2494 and 860-908).
LookupLogCalls(campusData, campusValue, duration) ==
  LET normalizedCampus == trim(toLowerCase(campusValue.s))
      campusInfo == campusData[Index(campusData, normalizedCampus)]
      result == LookupCampus(campusData, normalizedCampus)
  IN IF ~campusValue.isString \/ campusValue.s = <<>>
     THEN <<LogCall("invalid_campus_param", "warning", DurationData(duration))>>
     ELSE <<LogCall("cache_lookup", "info", NoLogData),
            LogCall("cache_hit", "info", DurationData(duration))>>
          \o (IF ~Has(campusData, normalizedCampus)
              THEN <<LogCall("campus_not_found", "warning",
                             DurationData(duration))>>
              ELSE (IF ~campusInfo.isArray
                    THEN <<LogCall("invalid_recipients_data", "warning",
                                   NoLogData)>>
                    ELSE <<>>)
                   \o (IF campusInfo.driveLink = <<>> \/ ~campusInfo.linkIsString
                       THEN <<LogCall("invalid_drive_link", "warning",
                                      NoLogData)>>
                       ELSE <<>>)
                   \o <<LogCall("campus_lookup_success", "info",
                                DurationData(duration))>>
                   \o (IF result.recipients = <<>>
                       THEN <<LogCall("no_recipients_found", "warning",
                                      NoLogData)>>
                       ELSE <<>>))

\* The message of an error caught by getInfoByCampus.
ErrorMessage == <<"E", "x", "c", "e", "p", "t", "i", "o", "n">>

\* The catch block of getInfoByCampus after a log call inside the try block
\* has thrown: caught is its own log call (lines 2499-2517).
LookupCaught(r, caught) ==
  [w |-> r.w, t |-> caught.t, thrown |-> caught.thrown, info |-> EmptyInfo]

\* The try block of getInfoByCampus: r is what the lookup does without its
\* log calls, logged what the log calls inside the try block do.
LookupTried(r, logged, F, duration) ==
  IF logged.thrown
  THEN LookupCaught(r, logRuntimeOperation(logged.t, F, "campus_lookup_error",
                                           "error",
                                           ErrorData(duration, ErrorMessage)))
  ELSE [w |-> r.w, t |-> logged.t, thrown |-> r.thrown, info |-> r.info]

\* getInfoByCampus from its first statement: entered is the log call before
\* the try block (line 2349), calls are the log calls inside it.
LookupEntered(w, r, entered, F, calls, duration) ==
  IF entered.thrown
  THEN [w |-> w, t |-> entered.t, thrown |-> TRUE, info |-> EmptyInfo]
  ELSE LookupTried(r, LogAll(entered.t, F, calls), F, duration)

\* getInfoByCampus(campusValue) with its calls of logRuntimeOperation, when
\* the migration is complete and getCampusData returns a Directory.  Every
\* duration measured is the same.
getInfoByCampusLogged(w, t, F, campusValue, duration) ==
  LookupEntered(w, getInfoByCampus(w, F, campusValue),
                logRuntimeOperation(t, F, "campus_lookup", "info", NoLogData),
                F,
                LookupLogCalls(getCampusData(w, F).ret.entries, campusValue,
                               duration),
                duration)

\* handleRecipientsSheetEdit(e) with the invalidation event it stores after
\* clearCache() (lines 3231-3263); when clearCache() throws no event is
\* stored and clearCache() is tried once more (lines 3272-3281).
handleRecipientsSheetEditLogged(w, t, F, editType) ==
  LET first == clearCache(w, F)
      invalidationEvent == [timestamp |-> t.now, editType |-> editType]
      stored == PrependToLog(t.cacheInvalidationEvents, invalidationEvent,
                             INVALIDATION_EVENT_LIMIT, F,
                             "handleRecipientsSheetEdit.getProperty",
                             "handleRecipientsSheetEdit.setProperty")
  IN IF first.thrown
     THEN [w |-> clearCache(first.w, F).w, t |-> t]
     ELSE [w |-> first.w,
           t |-> [t EXCEPT !.now = @ + 1,
                           !.cacheInvalidationEvents =
                              IF stored.thrown THEN @ ELSE stored.logs]]

\* ------------------------------------------------------------------------
\* Inputs of the operations
\* ------------------------------------------------------------------------

Str(s) == [isString |-> TRUE, s |-> s]

\* A null argument.
NotAString == [isString |-> FALSE, s |-> <<>>]

\* Arguments of getInfoByCampus: two seed keys, one of them also in another
\* letter case with surrounding blanks, an unknown key, the empty string and
\* null.
CampusArgs ==
  {Str(CampusTest), Str(<<" ", "T", "E", "S", "T", " ">>),
   Str(<<"t", "s", "e", "t">>), Str(<<>>), NotAString}

GoodEmail == <<"a", "@", "n", "i", "s", "d", ".", "n", "e", "t">>

\* Accepted by the sheet's format rule, rejected by the cache's.
NoTldEmail == <<"a", "@", "n", "i", "s", "d">>

BadEmail == <<"b", "a", "d", "-", "e", "m", "a", "i", "l">>

\* Rows a user types into the Recipients sheet.
UserRows ==
  { <<<<" ", "T", "E", "S", "T", " ">>, GoodEmail>>,
    <<CampusTest, NoTldEmail>>,
    <<<<"t", "s", "e", "t">>, BadEmail>>,
    <<<<>>, <<>>>> }

\* What a user may type over the header row.
UserHeaders == { <<CAMPUS_COLUMN, <<"E", "m", "a", "i", "l">>>> }

\* The CampusReferenceInfo sheet is either missing or holds a folder id for
\* "test" (typed "Test") and for a campus without recipients.
ReferenceSheet ==
  [exists |-> TRUE,
   rows |-> << <<CAMPUS_COLUMN, <<"I", "d">>>>,
               <<<<"T", "e", "s", "t">>, <<"F", "1">>>>,
               <<<<"e", "x", "t", "r", "a">>, <<"F", "2">>>> >>]

\* Directories handed to storeCampusData directly: a well-formed one, one
\* whose recipient the cache's format rule rejects, and one whose recipients
\* field is not an array.
StoreInputs ==
  { [isObject |-> TRUE,
     entries |-> <<DirEntry(CampusTest, <<GoodEmail>>, TRUE, <<"F", "1">>)>>],
    [isObject |-> TRUE,
     entries |-> <<DirEntry(CampusTest, <<NoTldEmail>>, TRUE, <<"F", "1">>)>>],
    [isObject |-> TRUE,
     entries |-> <<DirEntry(CampusTest, <<>>, FALSE, <<"F", "1">>)>>] }

\* Accepted by the cache's format rule, rejected by the sheet's.
DoubleDotEmail == <<"a", "@", "n", "i", "s", "d", ".", ".", "n", "e", "t">>

\* A folder id holding the two characters JSON escapes.
QuotedLink == <<"F", "\\", "\"", "1">>

Directory(entries) == [isObject |-> TRUE, entries |-> entries]

\* An argument of storeCampusData that is not an object.
NotADirectory == [isObject |-> FALSE, entries |-> <<>>]

\* A campus entry that is not an object (null).
NullEntry(campus) ==
  [key |-> campus, isObject |-> FALSE, recipients |-> <<>>, isArray |-> FALSE,
   driveLink |-> <<>>, linkIsString |-> FALSE]

\* Directories handed to storeCampusData by the Cache Manager's callers and
\* tests: the empty one, well-formed ones (one campus, the seed campuses, a
\* folder id with characters JSON escapes), ones with a recipient one of the
\* two format rules rejects, and ones of the wrong structure.
CacheDirectories ==
  { Directory(<<>>),
    Directory(<<DirEntry(CampusTest, <<GoodEmail>>, TRUE, <<"F", "1">>)>>),
    Directory(CombineHardcoded(HardcodedData, HardcodedDriveLinks)),
    Directory(<<DirEntry(CampusTest, <<GoodEmail>>, TRUE, QuotedLink)>>),
    Directory(<<DirEntry(CampusTest, <<GoodEmail, NoTldEmail>>, TRUE, <<"F", "1">>)>>),
    Directory(<<DirEntry(CampusTest, <<DoubleDotEmail>>, TRUE, <<"F", "1">>)>>),
    Directory(<<DirEntry(CampusTest, <<BadEmail>>, TRUE, <<>>)>>),
    Directory(<<DirEntry(CampusTest, <<>>, FALSE, <<"F", "1">>)>>),
    Directory(<<[DirEntry(CampusTest, <<GoodEmail>>, TRUE, <<>>)
                   EXCEPT !.linkIsString = FALSE]>>),
    Directory(<<NullEntry(CampusTest)>>),
    NotADirectory }

\* The payload with campusData d, as JSON text.
PayloadOf(d) ==
  [kind |-> "json", campusData |-> JSONStringifyEntries(d.entries),
   migrationComplete |-> TRUE]

\* What an operator may put under CAMPUS_DATA_KEY by hand: text that is not
\* JSON, the empty string, JSON without campusData, and JSON whose campusData
\* any of the directories above would give.
DirectPayloads ==
  {GarbageData, EmptyStringData, NoMapData}
    \cup {PayloadOf(d) : d \in {x \in CacheDirectories : x.isObject}}

\* ------------------------------------------------------------------------
\* State
\* ------------------------------------------------------------------------

VARIABLES
  campusDataProp,        \* script property CAMPUS_DATA_KEY
  migrationCompleteProp, \* script property MIGRATION_COMPLETE_KEY
  lastUpdatedProp,       \* script property LAST_UPDATED_KEY is set
  recipientsSheet,       \* the Recipients sheet
  referenceSheet,        \* the CampusReferenceInfo sheet
  pendingEdits,          \* edits of the Recipients sheet whose onEdit has not run
  edits,                 \* user edits made so far
  faults,                \* I/O calls that have failed so far
  running,               \* the invocations in progress, step by step (SpecRace)
  telemetry,             \* the script properties of the logs, and the clock
  logging,               \* the log calls made and in progress (SpecTelemetry,
                         \* SpecLogRace)
  pre,                   \* the world the last invocation started from
  last                   \* the last invocation: operation, argument, outcome

vars == <<campusDataProp, migrationCompleteProp, lastUpdatedProp,
          recipientsSheet, referenceSheet, pendingEdits, edits, faults,
          running, telemetry, logging, pre, last>>

World ==
  [cd |-> campusDataProp, flag |-> migrationCompleteProp, ts |-> lastUpdatedProp,
   sheet |-> recipientsSheet, ref |-> referenceSheet]

\* The invocation, in which the I/O calls F failed, leaves world w.
Leaves(w, F) ==
  /\ campusDataProp' = w.cd
  /\ migrationCompleteProp' = w.flag
  /\ lastUpdatedProp' = w.ts
  /\ recipientsSheet' = w.sheet
  /\ referenceSheet' = w.ref
  /\ pre' = World
  /\ faults' = faults + Cardinality(F)
  /\ UNCHANGED <<running, telemetry, logging>>

NoMigration == [called |-> FALSE, ran |-> FALSE, thrown |-> FALSE, step |-> "none"]

\* What getCampusData() returns when it returns null.
NullData == [isNull |-> TRUE, entries |-> <<>>]

\* The validationResults of a table without data rows.
NoValidation ==
  [valid |-> <<>>, invalid |-> <<>>, errors |-> <<>>, warnings |-> <<>>,
   totalRows |-> 0, validEmails |-> 0, invalidEmails |-> 0,
   emptyRows |-> 0, duplicateEmails |-> 0, seenEmails |-> {}]

\* What handleDuplicateCampusEntries makes of no entries.
NoDuplicates ==
  [campusFirstOccurrence |-> <<>>, data |-> <<>>, duplicateWarnings |-> <<>>]

NoCall ==
  [op |-> "none", arg |-> NotAString, thrown |-> FALSE, info |-> EmptyInfo,
   ret |-> FALSE, action |-> "none", migration |-> NoMigration,
   cacheHit |-> FALSE, sheetRead |-> FALSE, failed |-> FALSE,
   directory |-> NotADirectory, data |-> NullData, seed |-> HardcodedData,
   sheetData |-> <<>>, validationResults |-> NoValidation,
   validEntries |-> <<>>, duplicateResult |-> NoDuplicates,
   expectedCampuses |-> <<>>, campusNames |-> NoCampusNames, F |-> {}]

\* The logs and summaries of a script that has logged nothing.
NoTelemetry ==
  [migrationLogs |-> AbsentLog, migrationSummary |-> AbsentSummary,
   runtimeLogs |-> AbsentLog, runtimeStats |-> AbsentStats,
   cacheInvalidationEvents |-> AbsentLog, now |-> 0]

\* A call of a log function in progress: the log it writes, the place it has
\* reached, its entry and the stored log it has read.
NoWriter ==
  [pc |-> "idle", log |-> "runtimeLogs", logEntry |-> <<>>,
   existingLogs |-> AbsentLog]

\* No log call was made: before is the telemetry the last invocation started
\* from, F the calls that failed in it, calls the invocations made so far,
\* written the entries stored in each log from the last stored to the first,
\* overlapped whether a log call has read a log between the read and the
\* write of another one, samples the calls of logRuntimeOperation made so
\* far whose data had a duration, from the first to the last.
NoLogging ==
  [before |-> NoTelemetry, F |-> {}, calls |-> 0, samples |-> <<>>,
   writers |-> <<NoWriter, NoWriter>>,
   written |-> [migrationLogs |-> <<>>, runtimeLogs |-> <<>>,
                cacheInvalidationEvents |-> <<>>],
   overlapped |-> FALSE]

\* No invocation is in progress: every invocation of Spec and SpecFaults runs
\* from its first statement to its last without another one in between.
Idle ==
  [migration |-> "idle", combinedData |-> <<>>, campusData |-> AbsentData,
   refresh |-> "idle", recipientsData |-> <<>>, edit |-> "idle",
   peers |-> <<>>]

\* The script was just installed: the store is empty and the spreadsheet has
\* its CampusReferenceInfo sheet but no Recipients sheet.
Installed ==
  /\ campusDataProp = AbsentData
  /\ migrationCompleteProp = "absent"
  /\ lastUpdatedProp = FALSE
  /\ recipientsSheet = NoSheet
  /\ referenceSheet = ReferenceSheet
  /\ pendingEdits = 0
  /\ edits = 0
  /\ faults = 0
  /\ telemetry = NoTelemetry
  /\ logging = NoLogging
  /\ pre = World
  /\ last = NoCall

Init == Installed /\ running = Idle

\* ------------------------------------------------------------------------
\* Invocations
\* ------------------------------------------------------------------------

\* A lookup by the e-mail sender: getInfoByCampus(campusValue).
Lookup(F) ==
  \E campusValue \in CampusArgs :
    \E r \in {getInfoByCampus(World, F, campusValue)} :
       /\ Leaves(r.w, F)
       /\ last' = [NoCall EXCEPT !.op = "getInfoByCampus", !.arg = campusValue,
                                 !.thrown = r.thrown, !.info = r.info,
                                 !.migration = r.migration,
                                 !.cacheHit = r.cacheHit,
                                 !.sheetRead = r.sheetRead, !.failed = r.failed]
       /\ UNCHANGED <<pendingEdits, edits>>

\* MigrationManager.performMigration() called on its own.
Migrate(F) ==
  \E r \in {performMigration(World, F)} :
     /\ Leaves(r.w, F)
     /\ last' = [NoCall EXCEPT !.op = "performMigration", !.ret = r.ret,
                               !.thrown = r.thrown, !.F = F,
                               !.migration = [called |-> TRUE, ran |-> r.ran,
                                              thrown |-> r.thrown,
                                              step |-> r.step]]
     /\ UNCHANGED <<pendingEdits, edits>>

\* The onEdit trigger of an edit of the Recipients sheet.
EditNotification(F) ==
  /\ pendingEdits > 0
  /\ \E w \in {onEdit(World, F, SHEET_NAME)} : Leaves(w, F)
  /\ pendingEdits' = pendingEdits - 1
  /\ last' = [NoCall EXCEPT !.op = "onEdit", !.arg = Str(SHEET_NAME)]
  /\ UNCHANGED edits

\* The onEdit trigger of an edit of another sheet.
OtherSheetEdit(F) ==
  LET name == <<"T", "e", "a", "c", "h", "e", "r", " ", "N", "o", "t", "e", "s">>
  IN /\ \E w \in {onEdit(World, F, name)} : Leaves(w, F)
     /\ last' = [NoCall EXCEPT !.op = "onEdit", !.arg = Str(name)]
     /\ UNCHANGED <<pendingEdits, edits>>

\* refreshCampusCache() from the menu.
ManualRefresh(F) ==
  \E r \in {refreshCampusCache(World, F)} :
     /\ Leaves(r.w, F)
     /\ last' = [NoCall EXCEPT !.op = "refreshCampusCache", !.ret = r.success]
     /\ UNCHANGED <<pendingEdits, edits>>

\* validateRecipientsSheet() from the menu: validateAndRecoverSheet().
ValidateSheet(F) ==
  \E r \in {validateAndRecoverSheet(World, F)} :
     /\ Leaves(r.w, F)
     /\ last' = [NoCall EXCEPT !.op = "validateAndRecoverSheet",
                               !.ret = r.success, !.action = r.action]
     /\ UNCHANGED <<pendingEdits, edits>>

\* recoverRecipientsSheetManual() from the menu: recoverRecipientsSheet().
ManualRecover(F) ==
  \E r \in {recoverRecipientsSheet(World, F)} :
     /\ Leaves(r.w, F)
     /\ last' = [NoCall EXCEPT !.op = "recoverRecipientsSheet",
                               !.ret = r.success, !.action = r.action]
     /\ UNCHANGED <<pendingEdits, edits>>

\* PropertiesManager.clearCache() called on its own.
ClearCache(F) ==
  \E r \in {clearCache(World, F)} :
     /\ Leaves(r.w, F)
     /\ last' = [NoCall EXCEPT !.op = "clearCache", !.thrown = r.thrown]
     /\ UNCHANGED <<pendingEdits, edits>>

\* PropertiesManager.storeCampusData(d) called on its own.
Store(F) ==
  \E d \in StoreInputs :
    \E r \in {storeCampusData(World, F, d)} :
       /\ Leaves(r.w, F)
       /\ last' = [NoCall EXCEPT !.op = "storeCampusData", !.thrown = r.thrown]
       /\ UNCHANGED <<pendingEdits, edits>>

\* ------------------------------------------------------------------------
\* The users of the spreadsheet
\* ------------------------------------------------------------------------

\* The user's change leaves the Recipients sheet as sheet.
UserLeaves(sheet) ==
  /\ edits < MaxEdits
  /\ edits' = edits + 1
  /\ recipientsSheet' = sheet
  /\ pre' = [World EXCEPT !.sheet = sheet]
  /\ last' = [NoCall EXCEPT !.op = "user"]
  /\ UNCHANGED <<campusDataProp, migrationCompleteProp, lastUpdatedProp,
                 referenceSheet, faults, running, telemetry, logging>>

\* A user types a row over a data row or below the last one; onEdit will run.
UserEditsRow ==
  /\ recipientsSheet.exists
  /\ Len(recipientsSheet.rows) >= 1
  /\ \E i \in {2, Len(recipientsSheet.rows) + 1}, row \in UserRows :
       UserLeaves([recipientsSheet EXCEPT
                     !.rows = IF i <= Len(@) THEN [@ EXCEPT ![i] = row]
                              ELSE Append(@, row)])
  /\ pendingEdits' = pendingEdits + 1

\* A user types over the header row; onEdit will run.
UserEditsHeader ==
  /\ recipientsSheet.exists
  /\ Len(recipientsSheet.rows) >= 1
  /\ \E header \in UserHeaders :
       UserLeaves([recipientsSheet EXCEPT !.rows[1] = header])
  /\ pendingEdits' = pendingEdits + 1

\* A user deletes the Recipients sheet; no onEdit runs for that.
UserDeletesSheet ==
  /\ recipientsSheet.exists
  /\ UserLeaves(NoSheet)
  /\ UNCHANGED pendingEdits

\* A user deletes the CampusReferenceInfo sheet.
UserDeletesReferenceSheet ==
  /\ referenceSheet.exists
  /\ edits < MaxEdits
  /\ edits' = edits + 1
  /\ referenceSheet' = NoSheet
  /\ pre' = [World EXCEPT !.ref = NoSheet]
  /\ last' = [NoCall EXCEPT !.op = "user"]
  /\ UNCHANGED <<campusDataProp, migrationCompleteProp, lastUpdatedProp,
                 recipientsSheet, pendingEdits, faults, running, telemetry,
                 logging>>

UserAction ==
  \/ UserEditsRow
  \/ UserEditsHeader
  \/ UserDeletesSheet
  \/ UserDeletesReferenceSheet

\* ------------------------------------------------------------------------
\* Specifications
\* ------------------------------------------------------------------------

Invocation(F) ==
  \/ Lookup(F)
  \/ Migrate(F)
  \/ EditNotification(F)
  \/ OtherSheetEdit(F)
  \/ ManualRefresh(F)
  \/ ValidateSheet(F)
  \/ ManualRecover(F)
  \/ ClearCache(F)
  \/ Store(F)

\* Every I/O call succeeds.
Next == Invocation({}) \/ UserAction

Spec == Init /\ [][Next]_vars

\* The I/O calls each operation can reach.
LookupCalls == FaultPoints

MigrateCalls ==
  {"isMigrationComplete.getProperty", "readCampusReferenceInfo.getValues",
   "storeCampusData.setProperty", "createSheet.insertSheet",
   "createSheet.setValue", "setMigrationComplete.setFlag",
   "setMigrationComplete.setTimestamp"}

EditCalls == {"clearCache.deleteProperty"}

RefreshCalls ==
  {"clearCache.deleteProperty", "batchReadSheetData.getValues",
   "readCampusReferenceInfo.getValues", "storeCampusData.setProperty"}

RecoverCalls ==
  {"batchReadSheetData.getValues", "getCampusData.getProperty",
   "clearCache.deleteProperty", "createSheetFromData.insertSheet"}

StoreCalls == {"storeCampusData.setProperty"}

\* The sets of calls among S that may still fail: at most MaxFaults I/O calls
\* fail in a behaviour.
Failing(S) == {F \in SUBSET S : F # {} /\ Cardinality(F) <= MaxFaults - faults}

FaultyInvocation ==
  \/ \E F \in Failing(LookupCalls) : Lookup(F)
  \/ \E F \in Failing(MigrateCalls) : Migrate(F)
  \/ \E F \in Failing(EditCalls) : EditNotification(F)
  \/ \E F \in Failing(RefreshCalls) : ManualRefresh(F)
  \/ \E F \in Failing(RecoverCalls) : ValidateSheet(F)
  \/ \E F \in Failing(RecoverCalls) : ManualRecover(F)
  \/ \E F \in Failing(EditCalls) : ClearCache(F)
  \/ \E F \in Failing(StoreCalls) : Store(F)

NextFaults == Next \/ FaultyInvocation

SpecFaults == Init /\ [][NextFaults]_vars

\* ------------------------------------------------------------------------
\* Migrations, lookups, edits with their notifications, refreshes and
\* recoveries (SpecConsistency)
\* ------------------------------------------------------------------------

\* The invocations that read or write the Directory and the Recipients sheet
\* together.
ConsistencyInvocation(F) ==
  \/ Lookup(F)
  \/ Migrate(F)
  \/ EditNotification(F)
  \/ ManualRefresh(F)
  \/ ValidateSheet(F)
  \/ ManualRecover(F)

NextConsistency ==
  \/ ConsistencyInvocation({})
  \/ UserEditsRow
  \/ UserEditsHeader

SpecConsistency == Init /\ [][NextConsistency]_vars

\* ------------------------------------------------------------------------
\* The Cache Manager on its own
\*
\* SpecCache runs PropertiesManager.storeCampusData, getCampusData and
\* clearCache, with performMigration to set the flag and make the sheet, on a
\* store whose CAMPUS_DATA_KEY an operator may also write by hand.  Every I/O
\* call succeeds.
\* ------------------------------------------------------------------------

\* PropertiesManager.storeCampusData(d)
CacheStore ==
  \E d \in CacheDirectories :
    \E r \in {storeCampusData(World, {}, d)} :
       /\ Leaves(r.w, {})
       /\ last' = [NoCall EXCEPT !.op = "storeCampusData", !.thrown = r.thrown,
                                 !.directory = d]
       /\ UNCHANGED <<pendingEdits, edits>>

\* PropertiesManager.getCampusData()
CacheGet ==
  \E r \in {getCampusData(World, {})} :
     /\ Leaves(r.w, {})
     /\ last' = [NoCall EXCEPT !.op = "getCampusData", !.data = r.ret]
     /\ UNCHANGED <<pendingEdits, edits>>

\* An operator writes a value under CAMPUS_DATA_KEY in the script properties.
OperatorWrites ==
  \E p \in DirectPayloads :
     /\ campusDataProp' = p
     /\ pre' = [World EXCEPT !.cd = p]
     /\ last' = [NoCall EXCEPT !.op = "operator"]
     /\ UNCHANGED <<migrationCompleteProp, lastUpdatedProp, recipientsSheet,
                    referenceSheet, pendingEdits, edits, faults, running,
                    telemetry, logging>>

NextCache ==
  \/ CacheStore
  \/ CacheGet
  \/ ClearCache({})
  \/ Migrate({})
  \/ OperatorWrites

SpecCache == Init /\ [][NextCache]_vars

\* ------------------------------------------------------------------------
\* Recovery with the seed table as an input
\*
\* recoverRecipientsSheet() asks whether extractHardcodedData() returned an
\* empty table (lines 1850-1854).  The table of this build is not empty;
\* SpecRecovery runs the recovery with the table of the build and with an
\* empty one, on stores and sheets that storeCampusData, clearCache, an
\* operator and the users of the spreadsheet have left.  Every I/O call
\* succeeds.
\* ------------------------------------------------------------------------

\* What extractHardcodedData() returns: the table of the build, or none.
SeedTables == {HardcodedData, <<>>}

\* RecipientsSheetManager.recoverRecipientsSheet()
RecoverFrom ==
  \E hardcodedData \in SeedTables :
    \E r \in {recoverRecipientsSheetFrom(World, {}, hardcodedData)} :
       /\ Leaves(r.w, {})
       /\ last' = [NoCall EXCEPT !.op = "recoverRecipientsSheet",
                                 !.ret = r.success, !.action = r.action,
                                 !.seed = hardcodedData]
       /\ UNCHANGED <<pendingEdits, edits>>

NextRecovery ==
  \/ RecoverFrom
  \/ CacheStore
  \/ ClearCache({})
  \/ OperatorWrites
  \/ UserAction

SpecRecovery == Init /\ [][NextRecovery]_vars

\* ------------------------------------------------------------------------
\* The Validator alone
\*
\* validateEmailAddresses, handleDuplicateCampusEntries and
\* validateCampusNames read nothing but their argument.  SpecValidator applies
\* them to tables of up to MaxRows data rows below the header, and to tables
\* of one row for each of a list of recipients.  A call leaves nothing
\* behind for the next one, so a behaviour is one call.
\* ------------------------------------------------------------------------

UpperEmail == <<"A", "@", "N", "I", "S", "D", ".", "N", "E", "T">>

CampusTset == <<"t", "s", "e", "t">>

\* Data rows: valid ones (two campuses, one typed in capitals between
\* blanks, a recipient and the same recipient in capitals), one with a
\* recipient of a bad format, a blank one, one without campus and one without
\* recipient.
ValidatorRows ==
  { <<CampusTest, GoodEmail>>,
    <<<<" ", "T", "E", "S", "T", " ">>, UpperEmail>>,
    <<CampusTset, GoodEmail>>,
    <<CampusTset, BadEmail>>,
    <<<<" ">>, <<>>>>,
    <<<<>>, GoodEmail>>,
    <<CampusTest, <<>>>> }

\* Recipients of one-row tables, beside those above: with two "@", with "@"
\* first, with "@" last, with a blank, with two dots in a row in the domain
\* and in the local part, and without a dot in the domain.
EmailSamples ==
  { GoodEmail, UpperEmail, BadEmail, NoTldEmail, DoubleDotEmail,
    <<"a", "@", "@", "n", "i", "s", "d", ".", "n", "e", "t">>,
    <<"a", "@", "b", "@", "n", "i", "s", "d", ".", "n", "e", "t">>,
    <<"@", "n", "i", "s", "d", ".", "n", "e", "t">>,
    <<"a", "@">>,
    <<"a", " ", "b", "@", "n", "i", "s", "d", ".", "n", "e", "t">>,
    <<"a", ".", ".", "b", "@", "n", "i", "s", "d", ".", "n", "e", "t">>,
    <<"a", ".", "b", "@", "n", "i", "s", "d", ".", "n", "e", "t">>,
    <<"a", "@", "n", "i", "s", "d", ".", "c", "o", ".", "u", "k">> }

\* The tables: the header row, then the data rows.
SheetTables ==
  {<<HeaderRow>> \o rows :
     rows \in UNION {[1..n -> ValidatorRows] : n \in 0..MaxRows}}
  \cup {<<HeaderRow, <<CampusTest, e>>>> : e \in EmailSamples}

\* RecipientsSheetManager.validateEmailAddresses(data)
ValidateEmails ==
  \E data \in SheetTables :
    /\ last.op = "none"
    /\ last' = [NoCall EXCEPT !.op = "validateEmailAddresses",
                              !.sheetData = data,
                              !.validationResults = validateEmailAddresses(data)]
    /\ UNCHANGED <<campusDataProp, migrationCompleteProp, lastUpdatedProp,
                   recipientsSheet, referenceSheet, pendingEdits, edits,
                   faults, running, telemetry, logging, pre>>

\* RecipientsSheetManager.handleDuplicateCampusEntries(validEntries), on the
\* valid entries validateEmailAddresses returns for a table.
ResolveDuplicates ==
  \E data \in SheetTables :
    \E validEntries \in {validateEmailAddresses(data).valid} :
      /\ last.op = "none"
      /\ last' = [NoCall EXCEPT
                    !.op = "handleDuplicateCampusEntries",
                    !.sheetData = data,
                    !.validEntries = validEntries,
                    !.duplicateResult = handleDuplicateCampusEntries(validEntries)]
      /\ UNCHANGED <<campusDataProp, migrationCompleteProp, lastUpdatedProp,
                     recipientsSheet, referenceSheet, pendingEdits, edits,
                     faults, running, telemetry, logging, pre>>

CampusBernal == <<"b", "e", "r", "n", "a", "l">>

\* Key lists of the seed table: the one of HardcodedData above, and a longer
\* one with short keys and a key that is the beginning of another.
ExpectedCampusLists ==
  { Keys(HardcodedData),
    <<CampusBernal, <<"r", "o", "s", "s">>, <<"z", "a", "c", "h", "r", "y">>,
      CampusZachryMagnet, CampusTest>> }

\* Campus names typed into the sheet: a seed key, seed keys with one letter
\* wrong, with two letters swapped, cut short and with letters added, and a
\* name unlike any seed key.
TypedCampuses ==
  { CampusTest,
    <<"B", "e", "r", "n", "e", "l">>,
    CampusTset,
    <<"z", "a", "c", "h">>,
    <<"t", "e", "s", "t", "i", "n", "g">>,
    <<"u", "n", "k", "n", "o", "w", "n">> }

CampusNameTables ==
  {<<HeaderRow>> \o rows :
     rows \in UNION {[1..n -> {<<c, GoodEmail>> : c \in TypedCampuses}] :
                       n \in 0..MaxRows}}

\* RecipientsSheetManager.validateCampusNames(validEntries), on the valid
\* entries validateEmailAddresses returns for a table.
ValidateCampusNames ==
  \E data \in CampusNameTables, expectedCampuses \in ExpectedCampusLists :
    \E validEntries \in {validateEmailAddresses(data).valid} :
      /\ last.op = "none"
      /\ last' = [NoCall EXCEPT
                    !.op = "validateCampusNames",
                    !.sheetData = data,
                    !.validEntries = validEntries,
                    !.expectedCampuses = expectedCampuses,
                    !.campusNames =
                       validateCampusNamesFrom(validEntries, expectedCampuses)]
      /\ UNCHANGED <<campusDataProp, migrationCompleteProp, lastUpdatedProp,
                     recipientsSheet, referenceSheet, pendingEdits, edits,
                     faults, running, telemetry, logging, pre>>

NextValidator ==
  \/ ValidateEmails
  \/ ResolveDuplicates
  \/ ValidateCampusNames

SpecValidator == Init /\ [][NextValidator]_vars

\* ------------------------------------------------------------------------
\* Concurrent invocations, one I/O call at a time
\*
\* Apps Script runs each invocation in its own execution; PropertiesService
\* and the spreadsheet are shared, and the code takes no lock (LockService is
\* never called).  SpecRace interleaves, statement by statement, one
\* performMigration(), one refreshCampusCache() and one user edit of the
\* Recipients sheet followed by its onEdit trigger; when all three are over, a
\* lookup runs alone.
\* ------------------------------------------------------------------------

Step(w, op) ==
  /\ campusDataProp' = w.cd
  /\ migrationCompleteProp' = w.flag
  /\ lastUpdatedProp' = w.ts
  /\ recipientsSheet' = w.sheet
  /\ referenceSheet' = w.ref
  /\ pre' = World
  /\ last' = [NoCall EXCEPT !.op = op]
  /\ UNCHANGED <<pendingEdits, edits, faults, telemetry, logging>>

\* performMigration, line 198: the completion guard.
MigrationCheck ==
  /\ running.migration = "check"
  /\ running' = [running EXCEPT !.migration =
                   IF isMigrationComplete(World, {}) THEN "done" ELSE "combine"]
  /\ Step(World, "performMigration")

\* performMigration, lines 210-238: the seed and the folder ids are read and
\* combined.
MigrationCombine ==
  /\ running.migration = "combine"
  /\ running' = [running EXCEPT
                   !.migration = "store",
                   !.combinedData = CombineHardcoded(extractHardcodedData,
                                       readCampusReferenceInfo(World, {}))]
  /\ Step(World, "performMigration")

\* performMigration, line 249: storeCampusData(combinedData).
MigrationStore ==
  /\ running.migration = "store"
  /\ running' = [running EXCEPT !.migration = "create_sheet"]
  /\ Step(storeCampusData(World, {}, [isObject |-> TRUE,
                                      entries |-> running.combinedData]).w,
          "performMigration")

\* performMigration, line 260: createRecipientsSheet(hardcodedData).
MigrationCreateSheet ==
  /\ running.migration = "create_sheet"
  /\ running' = [running EXCEPT !.migration = "set_flag"]
  /\ Step(createRecipientsSheet(World, {}, extractHardcodedData).w,
          "performMigration")

\* setMigrationComplete, line 1075.
MigrationSetFlag ==
  /\ running.migration = "set_flag"
  /\ running' = [running EXCEPT !.migration = "set_timestamp"]
  /\ Step([World EXCEPT !.flag = "true"], "performMigration")

\* setMigrationComplete, line 1076.
MigrationSetTimestamp ==
  /\ running.migration = "set_timestamp"
  /\ running' = [running EXCEPT !.migration = "read_payload"]
  /\ Step([World EXCEPT !.ts = TRUE], "performMigration")

\* setMigrationComplete, line 1079: the payload is read into campusData.
MigrationReadPayload ==
  /\ running.migration = "read_payload"
  /\ running' = [running EXCEPT !.migration = "write_payload",
                                !.campusData = campusDataProp]
  /\ Step(World, "performMigration")

\* setMigrationComplete, lines 1080-1089: the payload read is written back
\* with migrationComplete set.
MigrationWritePayload ==
  /\ running.migration = "write_payload"
  /\ running' = [running EXCEPT !.migration = "done"]
  /\ Step(IF Parseable(running.campusData)
          THEN [World EXCEPT !.cd = [running.campusData EXCEPT
                                       !.migrationComplete = TRUE]]
          ELSE World,
          "performMigration")

\* refreshCampusCache, line 3301: clearCache().
RefreshClear ==
  /\ running.refresh = "clear"
  /\ running' = [running EXCEPT !.refresh = "read"]
  /\ Step(clearCache(World, {}).w, "refreshCampusCache")

\* refreshCampusCache, line 3305: readRecipientsDataOptimized().
RefreshRead ==
  /\ running.refresh = "read"
  /\ running' = [running EXCEPT
                   !.refresh = "store",
                   !.recipientsData = readRecipientsDataOptimized(World, {})]
  /\ Step(World, "refreshCampusCache")

\* refreshCampusCache, lines 3309-3332: the folder ids are read and combined
\* with recipientsData, and storeCampusData(combinedData) is called.
RefreshStore ==
  /\ running.refresh = "store"
  /\ running' = [running EXCEPT !.refresh = "done"]
  /\ Step(storeCampusData(World, {},
            [isObject |-> TRUE,
             entries |-> CombineRecipients(running.recipientsData,
                           readCampusReferenceInfo(World, {}))]).w,
          "refreshCampusCache")

\* The user types a row into the Recipients sheet.
RaceUserEdit ==
  /\ running.edit = "edit"
  /\ recipientsSheet.exists
  /\ Len(recipientsSheet.rows) >= 1
  /\ running' = [running EXCEPT !.edit = "notify"]
  /\ \E i \in {2, Len(recipientsSheet.rows) + 1}, row \in UserRows :
       Step([World EXCEPT
               !.sheet.rows = IF i <= Len(@) THEN [@ EXCEPT ![i] = row]
                              ELSE Append(@, row)],
            "user")

\* The onEdit trigger of that edit (line 3231: clearCache()).
RaceEditNotification ==
  /\ running.edit = "notify"
  /\ running' = [running EXCEPT !.edit = "done"]
  /\ Step(onEdit(World, {}, SHEET_NAME), "onEdit")

\* Every invocation is over.
Quiescent ==
  /\ running.migration = "done"
  /\ running.refresh = "done"
  /\ running.edit = "done"

\* The lookup made alone afterwards.
RaceLookup ==
  /\ Quiescent
  /\ Lookup({})

InitRace ==
  /\ Installed
  /\ running = [Idle EXCEPT !.migration = "check", !.refresh = "clear",
                            !.edit = "edit"]

NextRace ==
  \/ MigrationCheck
  \/ MigrationCombine
  \/ MigrationStore
  \/ MigrationCreateSheet
  \/ MigrationSetFlag
  \/ MigrationSetTimestamp
  \/ MigrationReadPayload
  \/ MigrationWritePayload
  \/ RefreshClear
  \/ RefreshRead
  \/ RefreshStore
  \/ RaceUserEdit
  \/ RaceEditNotification
  \/ RaceLookup

SpecRace == InitRace /\ [][NextRace]_vars

\* ------------------------------------------------------------------------
\* The telemetry writes, one invocation after the other, with store calls
\* that fail and logs that were edited by hand (SpecTelemetry)
\* ------------------------------------------------------------------------

\* Invocations made in a behaviour of SpecTelemetry and of SpecLogRace.
MaxCalls == 2

\* Milliseconds an operation is measured to take.
Durations == {0, 3}

\* An error message longer than the 50 characters kept of it.
LongMessage == [i \in 1..60 |-> IF i <= 50 THEN "e" ELSE "x"]

\* The script properties and the sheets before the first invocation.
InstalledWorld ==
  [cd |-> AbsentData, flag |-> "absent", ts |-> FALSE, sheet |-> NoSheet,
   ref |-> ReferenceSheet]

\* An entry of each log, written earlier.
OldMigrationEntry(i) ==
  [timestamp |-> 0 - i, step |-> "migration_check", status |-> "started",
   data |-> NoLogData]

OldRuntimeEntry(i) ==
  [timestamp |-> 0 - i, operation |-> "cache_lookup", level |-> "info",
   data |-> NoLogData]

OldInvalidationEvent(i) ==
  [timestamp |-> 0 - i, editType |-> "modification"]

\* The telemetry after 49 calls of logMigrationStatus('migration_check',
\* 'started', ...), 98 calls of logRuntimeOperation('cache_lookup', 'info',
\* ...) and 9 edits of the Recipients sheet.
NearlyFullTelemetry ==
  [migrationLogs |->
     ArrayLog([i \in 1..(MIGRATION_LOG_LIMIT - 1) |-> OldMigrationEntry(i)]),
   migrationSummary |-> DefaultSummary,
   runtimeLogs |->
     ArrayLog([i \in 1..(RUNTIME_LOG_LIMIT - 2) |-> OldRuntimeEntry(i)]),
   runtimeStats |->
     [DefaultStats EXCEPT
        !.lastActivity = Number(0 - 1),
        !.operationCounts = <<[key |-> "cache_lookup",
                               val |-> RUNTIME_LOG_LIMIT - 2]>>],
   cacheInvalidationEvents |->
     ArrayLog([i \in 1..(INVALIDATION_EVENT_LIMIT - 1) |->
                 OldInvalidationEvent(i)]),
   now |-> 0]

\* Properties somebody has typed text into that JSON.parse rejects.
UnparseableTelemetry ==
  [migrationLogs |-> GarbageLog, migrationSummary |-> GarbageSummary,
   runtimeLogs |-> GarbageLog, runtimeStats |-> GarbageStats,
   cacheInvalidationEvents |-> GarbageLog, now |-> 0]

\* Logs somebody has replaced by the JSON text of an object.
NonArrayTelemetry ==
  [NoTelemetry EXCEPT !.migrationLogs = ObjectLog, !.runtimeLogs = ObjectLog,
                      !.cacheInvalidationEvents = ObjectLog]

InitialTelemetry ==
  {NoTelemetry, NearlyFullTelemetry, UnparseableTelemetry, NonArrayTelemetry}

\* Calls of logMigrationStatus made by performMigration and
\* readCampusReferenceInfo.
MigrationLogCalls ==
  {[step |-> "migration_start", status |-> "started", data |-> NoLogData],
   [step |-> "migration_complete", status |-> "success", data |-> NoLogData],
   [step |-> "migration_complete", status |-> "error",
    data |-> [NoLogData EXCEPT !.hasError = TRUE, !.error = ErrorMessage]],
   [step |-> "read_campus_ref_fallback", status |-> "warning",
    data |-> NoLogData]}
  \cup {[step |-> "extract_hardcoded", status |-> "success",
         data |-> DurationData(d)] : d \in Durations}

\* Calls of logRuntimeOperation made by getCampusData.
RuntimeLogCalls ==
  {LogCall("cache_miss", "info", DurationData(d)) : d \in Durations}
  \cup {LogCall("cache_corruption", "error", ErrorData(d, LongMessage)) :
          d \in Durations}

EditTypes == {"addition", "deletion", "modification"}

MigrationLogFaults ==
  {"logMigrationStatus.getProperty", "logMigrationStatus.setProperty",
   "updateMigrationSummary.getProperty", "updateMigrationSummary.setProperty"}

RuntimeLogFaults ==
  {"logRuntimeOperation.getProperty", "logRuntimeOperation.setProperty",
   "updateRuntimeStats.getProperty", "updateRuntimeStats.setProperty"}

EditLogFaults ==
  {"clearCache.deleteProperty", "handleRecipientsSheetEdit.getProperty",
   "handleRecipientsSheetEdit.setProperty"}

\* The calls among records whose data has a duration.
Samples(records) ==
  LET Timed(call) == call.data.hasDuration
  IN SelectSeq(records, Timed)

\* The invocation, in which the calls F failed and which made the calls
\* records of logRuntimeOperation, leaves world w and telemetry t.
TelemetryLeaves(w, t, F, records) ==
  /\ logging.calls < MaxCalls
  /\ campusDataProp' = w.cd
  /\ migrationCompleteProp' = w.flag
  /\ lastUpdatedProp' = w.ts
  /\ recipientsSheet' = w.sheet
  /\ referenceSheet' = w.ref
  /\ pre' = World
  /\ faults' = faults + Cardinality(F)
  /\ telemetry' = t
  /\ logging' = [logging EXCEPT !.before = telemetry, !.F = F,
                                !.calls = @ + 1,
                                !.samples = @ \o Samples(records)]
  /\ UNCHANGED <<running, pendingEdits, edits>>

\* MigrationManager.logMigrationStatus(step, status, message, data)
LogMigration(F) ==
  \E call \in MigrationLogCalls :
    \E r \in {logMigrationStatus(telemetry, F, call.step, call.status,
                                 call.data)} :
      /\ TelemetryLeaves(World, r.t, F, <<>>)
      /\ last' = [NoCall EXCEPT !.op = "logMigrationStatus",
                                !.thrown = r.thrown]

\* PropertiesManager.logRuntimeOperation(operation, level, message, data)
LogRuntime(F) ==
  \E call \in RuntimeLogCalls :
    \E r \in {logRuntimeOperation(telemetry, F, call.operation, call.level,
                                  call.data)} :
      /\ TelemetryLeaves(World, r.t, F, <<call>>)
      /\ last' = [NoCall EXCEPT !.op = "logRuntimeOperation",
                                !.thrown = r.thrown]

\* getInfoByCampus(campusValue) on a valid cache, with the log entries it
\* writes.
LoggedLookup(F) ==
  /\ isMigrationComplete(World, {})
  /\ ~getCampusData(World, {}).ret.isNull
  /\ \E campusValue \in CampusArgs, duration \in Durations :
       \E r \in {getInfoByCampusLogged(World, telemetry, F, campusValue,
                                       duration)} :
         /\ TelemetryLeaves(r.w, r.t, F,
                             LookupLogCalls(getCampusData(World, {}).ret.entries,
                                            campusValue, duration))
         /\ last' = [NoCall EXCEPT !.op = "getInfoByCampus",
                                   !.arg = campusValue,
                                   !.thrown = r.thrown, !.info = r.info,
                                   !.cacheHit = TRUE]

\* The onEdit trigger of an edit of the Recipients sheet, with the
\* invalidation event it stores.
LoggedEdit(F) ==
  \E editType \in EditTypes :
    \E r \in {handleRecipientsSheetEditLogged(World, telemetry, F, editType)} :
      /\ TelemetryLeaves(r.w, r.t, F, <<>>)
      /\ last' = [NoCall EXCEPT !.op = "onEdit", !.arg = Str(SHEET_NAME)]

Telemetry(F) ==
  \/ LogMigration(F)
  \/ LogRuntime(F)
  \/ LoggedLookup(F)
  \/ LoggedEdit(F)

FaultyTelemetry ==
  \/ \E F \in Failing(MigrationLogFaults) : LogMigration(F)
  \/ \E F \in Failing(RuntimeLogFaults) : LogRuntime(F)
  \/ \E F \in Failing(RuntimeLogFaults) : LoggedLookup(F)
  \/ \E F \in Failing(EditLogFaults) : LoggedEdit(F)

\* The migration has run; the logs are empty, nearly full or were edited by
\* hand.
InitTelemetry ==
  /\ \E w \in {performMigration(InstalledWorld, {}).w} :
       /\ campusDataProp = w.cd
       /\ migrationCompleteProp = w.flag
       /\ lastUpdatedProp = w.ts
       /\ recipientsSheet = w.sheet
       /\ referenceSheet = w.ref
  /\ pendingEdits = 0
  /\ edits = 0
  /\ faults = 0
  /\ running = Idle
  /\ telemetry \in InitialTelemetry
  /\ logging = [NoLogging EXCEPT !.before = telemetry]
  /\ pre = World
  /\ last = NoCall

NextTelemetry == Telemetry({}) \/ FaultyTelemetry

SpecTelemetry == InitTelemetry /\ [][NextTelemetry]_vars

\* ------------------------------------------------------------------------
\* Two log calls at the same time, statement by statement (SpecLogRace)
\* ------------------------------------------------------------------------

LogNames == {"migrationLogs", "runtimeLogs", "cacheInvalidationEvents"}

\* The entries each log keeps.
LimitOf(log) ==
  IF log = "migrationLogs" THEN MIGRATION_LOG_LIMIT
  ELSE IF log = "runtimeLogs" THEN RUNTIME_LOG_LIMIT
  ELSE INVALIDATION_EVENT_LIMIT

\* The entry a call made at time now writes into log.
EntryFor(log, now) ==
  IF log = "migrationLogs"
  THEN [timestamp |-> now, step |-> "migration_start", status |-> "started",
        data |-> NoLogData]
  ELSE IF log = "runtimeLogs"
  THEN [timestamp |-> now, operation |-> "campus_lookup", level |-> "info",
        data |-> NoLogData]
  ELSE [timestamp |-> now, editType |-> "modification"]

Other(i) == 3 - i

LogStep ==
  UNCHANGED <<campusDataProp, migrationCompleteProp, lastUpdatedProp,
              recipientsSheet, referenceSheet, pendingEdits, edits, faults,
              running, pre, last>>

\* A log call begins: the entry is made with the time of the call (lines
\* 41-48, 614-621 and 3234-3242).
WriterStamp(i) ==
  /\ logging.writers[i].pc = "idle"
  /\ logging.calls < MaxCalls
  /\ \E log \in LogNames :
       logging' = [logging EXCEPT
                     !.calls = @ + 1,
                     !.writers[i] = [pc |-> "read", log |-> log,
                                     logEntry |-> EntryFor(log, telemetry.now),
                                     existingLogs |-> AbsentLog]]
  /\ telemetry' = [telemetry EXCEPT !.now = @ + 1]
  /\ LogStep

\* properties.getProperty(...) of the log (lines 57, 630 and 3248).
WriterRead(i) ==
  /\ logging.writers[i].pc = "read"
  /\ logging' = [logging EXCEPT
                   !.writers[i].pc = "write",
                   !.writers[i].existingLogs = telemetry[logging.writers[i].log],
                   !.overlapped =
                      \/ @
                      \/ /\ logging.writers[Other(i)].pc = "write"
                         /\ logging.writers[Other(i)].log
                              = logging.writers[i].log]
  /\ UNCHANGED telemetry
  /\ LogStep

\* unshift, slice and properties.setProperty(...) of the log (lines 64-68,
\* 637-641 and 3255-3259).
WriterWrite(i) ==
  LET writer == logging.writers[i]
      stored == PrependToLog(writer.existingLogs, writer.logEntry,
                             LimitOf(writer.log), {}, "getProperty",
                             "setProperty")
  IN /\ writer.pc = "write"
     /\ telemetry' = [telemetry EXCEPT ![writer.log] = stored.logs]
     /\ logging' = [logging EXCEPT
                      !.writers[i].pc =
                         IF writer.log = "cacheInvalidationEvents"
                         THEN "idle" ELSE "summary",
                      !.written[writer.log] = unshift(@, writer.logEntry)]
     /\ LogStep

\* updateMigrationSummary(...) or updateRuntimeStats(...) (lines 71 and 644).
WriterSummary(i) ==
  LET writer == logging.writers[i]
  IN /\ writer.pc = "summary"
     /\ telemetry' =
          IF writer.log = "migrationLogs"
          THEN [telemetry EXCEPT
                  !.migrationSummary =
                     updateMigrationSummary(@, {}, writer.logEntry.step,
                                            writer.logEntry.status,
                                            writer.logEntry.data,
                                            writer.logEntry.timestamp)]
          ELSE [telemetry EXCEPT
                  !.runtimeStats =
                     updateRuntimeStats(@, {}, writer.logEntry.operation,
                                        writer.logEntry.level,
                                        writer.logEntry.data,
                                        writer.logEntry.timestamp)]
     /\ logging' = [logging EXCEPT !.writers[i].pc = "idle"]
     /\ LogStep

\* The logs are empty or nearly full, and no call is in progress.
InitLogRace ==
  /\ campusDataProp = AbsentData
  /\ migrationCompleteProp = "absent"
  /\ lastUpdatedProp = FALSE
  /\ recipientsSheet = NoSheet
  /\ referenceSheet = ReferenceSheet
  /\ pendingEdits = 0
  /\ edits = 0
  /\ faults = 0
  /\ running = Idle
  /\ pre = World
  /\ last = NoCall
  /\ \E t \in {NoTelemetry, NearlyFullTelemetry} :
       /\ telemetry = t
       /\ logging = [NoLogging EXCEPT
                       !.before = t,
                       !.written = [log \in LogNames |-> t[log].entries]]

NextLogRace ==
  \E i \in {1, 2} :
    \/ WriterStamp(i)
    \/ WriterRead(i)
    \/ WriterWrite(i)
    \/ WriterSummary(i)

SpecLogRace == InitLogRace /\ [][NextLogRace]_vars

\* ------------------------------------------------------------------------
\* Two migrations at the same time, one I/O call at a time (SpecMigrations)
\*
\* Two executions call performMigration() on a fresh install, for instance
\* two first lookups.  The reference sheet is there or has been deleted.
\* ------------------------------------------------------------------------

\* A performMigration() about to start: the place it has reached, its
\* combinedData, the payload it has read in setMigrationComplete, the
\* currentRow of createSheet, and how it ended.
NotStarted ==
  [pc |-> "check", combinedData |-> <<>>, campusData |-> AbsentData,
   currentRow |-> 2, ret |-> FALSE, thrown |-> FALSE]

\* spreadsheet.insertSheet(SHEET_NAME) (line 1401): a spreadsheet has no two
\* sheets of one name, and the call throws when the name is taken.
insertSheet(w) ==
  IF w.sheet.exists THEN [w |-> w, thrown |-> TRUE]
  ELSE [w |-> [w EXCEPT !.sheet = [exists |-> TRUE, rows |-> <<>>]],
        thrown |-> FALSE]

\* A setValue that writes every value into the first column of its row.
setValueInFirstColumn(w, row, column, value) ==
  LET rows   == w.sheet.rows
      padded == [r \in 1..(IF row > Len(rows) THEN row ELSE Len(rows)) |->
                   IF r <= Len(rows) THEN rows[r] ELSE <<<<>>, <<>>>>]
  IN [w EXCEPT !.sheet.rows = [padded EXCEPT ![row][1] = value]]

\* sheet.getRange(row, column).setValue(value): the rows between the last
\* row and row are blank.
setValue(w, row, column, value) ==
  LET rows   == w.sheet.rows
      padded == [r \in 1..(IF row > Len(rows) THEN row ELSE Len(rows)) |->
                   IF r <= Len(rows) THEN rows[r] ELSE <<<<>>, <<>>>>]
  IN [w EXCEPT !.sheet.rows = [padded EXCEPT ![row][column] = value]]

\* Migration i has reached pc and goes on to next, leaving world w.
PeerStep(i, pc, next, w) ==
  /\ running.peers[i].pc = pc
  /\ running' = [running EXCEPT !.peers[i].pc = next]
  /\ Step(w, "performMigration")

\* performMigration, line 198: the completion guard.
PeerCheck(i) ==
  /\ running.peers[i].pc = "check"
  /\ running' = [running EXCEPT !.peers[i].pc =
                   IF isMigrationComplete(World, {}) THEN "done" ELSE "combine"]
  /\ Step(World, "performMigration")

\* performMigration, lines 210-238.
PeerCombine(i) ==
  /\ running.peers[i].pc = "combine"
  /\ running' = [running EXCEPT
                   !.peers[i].pc = "store",
                   !.peers[i].combinedData =
                      CombineHardcoded(extractHardcodedData,
                                       readCampusReferenceInfo(World, {}))]
  /\ Step(World, "performMigration")

\* performMigration, line 249: storeCampusData(combinedData).
PeerStore(i) ==
  PeerStep(i, "store", "sheet_exists",
           storeCampusData(World, {},
             [isObject |-> TRUE,
              entries |-> running.peers[i].combinedData]).w)

\* createRecipientsSheet, line 497: sheetExists().
PeerSheetExists(i) ==
  PeerStep(i, "sheet_exists",
           IF sheetExists(World) THEN "set_flag" ELSE "get_sheet", World)

\* createSheet, line 1395: getSheetByName(SHEET_NAME).
PeerGetSheet(i) ==
  PeerStep(i, "get_sheet",
           IF recipientsSheet.exists THEN "set_flag" ELSE "insert_sheet", World)

\* createSheet, line 1401: insertSheet(SHEET_NAME); when it throws, the
\* catch blocks of createSheet and performMigration throw the error on.
PeerInsertSheet(i) ==
  \E r \in {insertSheet(World)} :
    /\ running.peers[i].pc = "insert_sheet"
    /\ running' = [running EXCEPT
                     !.peers[i].pc = IF r.thrown THEN "done" ELSE "header",
                     !.peers[i].thrown = r.thrown]
    /\ Step(r.w, "performMigration")

\* createSheet, lines 1407-1408: the two header cells.
PeerHeaderCampus(i) ==
  PeerStep(i, "header", "header_recipient",
           setValue(World, 1, 1, CAMPUS_COLUMN))

PeerHeaderRecipient(i) ==
  PeerStep(i, "header_recipient",
           IF PairRows(extractHardcodedData) = <<>> THEN "set_flag"
           ELSE "campus_cell",
           setValue(World, 1, 2, RECIPIENT_COLUMN))

\* createSheet, line 1420: the campus cell of row currentRow.
PeerCampusCell(i) ==
  LET currentRow == running.peers[i].currentRow
  IN PeerStep(i, "campus_cell", "recipient_cell",
              setValue(World, currentRow, 1,
                       PairRows(extractHardcodedData)[currentRow - 1][1]))

\* createSheet, lines 1421-1422: the recipient cell of row currentRow, and
\* currentRow++.
PeerRecipientCell(i) ==
  LET currentRow == running.peers[i].currentRow
      pairs      == PairRows(extractHardcodedData)
  IN /\ running.peers[i].pc = "recipient_cell"
     /\ running' = [running EXCEPT
                      !.peers[i].pc = IF currentRow - 1 < Len(pairs)
                                      THEN "campus_cell" ELSE "set_flag",
                      !.peers[i].currentRow = currentRow + 1]
     /\ Step(setValue(World, currentRow, 2, pairs[currentRow - 1][2]),
             "performMigration")

\* setMigrationComplete, line 1075.
PeerSetFlag(i) ==
  PeerStep(i, "set_flag", "set_timestamp", [World EXCEPT !.flag = "true"])

\* setMigrationComplete, line 1076.
PeerSetTimestamp(i) ==
  PeerStep(i, "set_timestamp", "read_payload", [World EXCEPT !.ts = TRUE])

\* setMigrationComplete, line 1079.
PeerReadPayload(i) ==
  /\ running.peers[i].pc = "read_payload"
  /\ running' = [running EXCEPT !.peers[i].pc = "write_payload",
                                !.peers[i].campusData = campusDataProp]
  /\ Step(World, "performMigration")

\* setMigrationComplete, lines 1080-1089, and the return of performMigration.
PeerWritePayload(i) ==
  LET campusData == running.peers[i].campusData
  IN /\ running.peers[i].pc = "write_payload"
     /\ running' = [running EXCEPT !.peers[i].pc = "done",
                                   !.peers[i].ret = TRUE]
     /\ Step(IF Parseable(campusData)
             THEN [World EXCEPT !.cd = [campusData EXCEPT
                                          !.migrationComplete = TRUE]]
             ELSE World,
             "performMigration")

InitMigrations ==
  /\ campusDataProp = AbsentData
  /\ migrationCompleteProp = "absent"
  /\ lastUpdatedProp = FALSE
  /\ recipientsSheet = NoSheet
  /\ referenceSheet \in {ReferenceSheet, NoSheet}
  /\ pendingEdits = 0
  /\ edits = 0
  /\ faults = 0
  /\ telemetry = NoTelemetry
  /\ logging = NoLogging
  /\ pre = World
  /\ last = NoCall
  /\ running = [Idle EXCEPT !.peers = <<NotStarted, NotStarted>>]

NextMigrations ==
  \E i \in {1, 2} :
    \/ PeerCheck(i)
    \/ PeerCombine(i)
    \/ PeerStore(i)
    \/ PeerSheetExists(i)
    \/ PeerGetSheet(i)
    \/ PeerInsertSheet(i)
    \/ PeerHeaderCampus(i)
    \/ PeerHeaderRecipient(i)
    \/ PeerCampusCell(i)
    \/ PeerRecipientCell(i)
    \/ PeerSetFlag(i)
    \/ PeerSetTimestamp(i)
    \/ PeerReadPayload(i)
    \/ PeerWritePayload(i)

SpecMigrations == InitMigrations /\ [][NextMigrations]_vars

\* ------------------------------------------------------------------------
\* What the properties below speak of
\* ------------------------------------------------------------------------

\* The key getInfoByCampus looks up for the argument arg.
Normalize(arg) == trim(toLowerCase(arg.s))

\* The argument is a non-empty string.
IsCampusName(arg) == arg.isString /\ arg.s # <<>>

\* The Recipients sheet of w exists, has rows below its header and has the
\* header [Campus, Recipient].
HealthyTable(w) ==
  LET batchResult == batchReadSheetData(w, {})
  IN batchResult.success /\ ~batchResult.isEmpty /\ batchResult.hasValidHeaders

\* Campus -> recipients as the valid rows of the Recipients sheet of w give
\* it: first-occurrence order, repeated pairs dropped.
TableRecipients(w) ==
  handleDuplicateCampusEntries(
    validateEmailAddresses(batchReadSheetData(w, {}).data).valid).data

ValueOf(m, k) == IF Has(m, k) THEN m[Index(m, k)].val ELSE <<>>

\* The Directory a refresh from the sheets of w is meant to store.
ReconciledDirectory(w) ==
  CombineRecipients(TableRecipients(w), readCampusReferenceInfo(w, {}))

\* s spells key in some letter case, with blanks around it.
Spells(s, key) ==
  \E a \in 0..Len(s) :
    /\ a + Len(key) <= Len(s)
    /\ \A i \in 1..Len(s) :
         IF i <= a \/ i > a + Len(key) THEN s[i] = " "
         ELSE \/ s[i] = key[i - a]
              \/ \E j \in 1..Len(LowerLetters) :
                   UpperLetters[j] = s[i] /\ LowerLetters[j] = key[i - a]

SpelledSeedKeys(s) ==
  {i \in 1..Len(HardcodedData) : Spells(s, HardcodedData[i].key)}

\* ------------------------------------------------------------------------
\* C1
\* ------------------------------------------------------------------------

\* The last invocation was a lookup of a campus with a valid row in a healthy
\* Recipients sheet, started with the migration flag set and no cached
\* Directory.
C1_RefreshingLookup ==
  /\ last.op = "getInfoByCampus"
  /\ IsCampusName(last.arg)
  /\ pre.flag = "true"
  /\ pre.cd = AbsentData
  /\ HealthyTable(pre)
  /\ Has(TableRecipients(pre), Normalize(last.arg))

\* C1: with the migration complete, the cache absent and a healthy Recipients
\* sheet holding a valid row for campus k, getInfoByCampus(k) returns the
\* valid recipients the sheet lists for k, in first-occurrence order without
\* repeats, and the folder id the reference sheet gives for k.
C1_LookupReturnsTableRecipients ==
  C1_RefreshingLookup =>
    last.info =
      [recipients |-> ValueOf(TableRecipients(pre), Normalize(last.arg)),
       driveLink  |-> DriveLinkOf(readCampusReferenceInfo(pre, {}),
                                  Normalize(last.arg))]

\* ------------------------------------------------------------------------
\* C2
\* ------------------------------------------------------------------------

\* C2: after a lookup that found no cached Directory and refreshed from a
\* healthy Recipients sheet with a valid row, the Directory reconciled from
\* the sheet is stored, and getCampusData() returns it.
C2_RefreshFillsCache ==
  ( /\ last.op = "getInfoByCampus"
    /\ IsCampusName(last.arg)
    /\ pre.flag = "true"
    /\ pre.cd = AbsentData
    /\ HealthyTable(pre)
    /\ TableRecipients(pre) # <<>> )
  => /\ ~getCampusData(World, {}).ret.isNull
     /\ getCampusData(World, {}).ret.entries = ReconciledDirectory(pre)

\* ------------------------------------------------------------------------
\* C3
\* ------------------------------------------------------------------------

\* No source of campus data of w knows the key k.
UnknownKey(w, k) ==
  /\ ~Has(JSONParseEntries(w.cd.campusData), k)
  /\ ~Has(HardcodedData, k)
  /\ ~Has(HardcodedDriveLinks, k)
  /\ ~Has(TableRecipients(w), k)
  /\ ~Has(readCampusReferenceInfo(w, {}), k)

\* C3: getInfoByCampus never throws, whatever fails inside it, and returns
\* {recipients: [], driveLink: ""} for an empty string, for an argument that
\* is not a string and for a campus no Directory holds.
C3_LookupNeverThrows ==
  last.op = "getInfoByCampus" =>
    /\ ~last.thrown
    /\ ( \/ ~IsCampusName(last.arg)
         \/ UnknownKey(pre, Normalize(last.arg)) ) => last.info = EmptyInfo

\* A lookup inside which the migration threw has returned the empty record.
C3_Witness ==
  /\ last.op = "getInfoByCampus"
  /\ last.migration.thrown
  /\ last.failed
  /\ ~last.thrown
  /\ last.info = EmptyInfo

\* ------------------------------------------------------------------------
\* C4
\* ------------------------------------------------------------------------

\* The last invocation was a lookup started on an empty store without a
\* Recipients sheet.
C4_FirstLookup ==
  /\ last.op = "getInfoByCampus"
  /\ IsCampusName(last.arg)
  /\ pre.cd = AbsentData
  /\ pre.flag = "absent"
  /\ ~pre.ts
  /\ ~pre.sheet.exists

\* C4: on an empty store without a Recipients sheet, every I/O call
\* succeeding, the first getInfoByCampus(k) runs the migration and returns
\* the seed recipients of k when k spells a seed key in any letter case, and
\* empty recipients with an empty folder id otherwise.
C4_FirstLookupReturnsSeed ==
  C4_FirstLookup =>
    /\ last.migration.ran
    /\ ~last.migration.thrown
    /\ migrationCompleteProp = "true"
    /\ IF SpelledSeedKeys(last.arg.s) = {}
       THEN last.info = EmptyInfo
       ELSE \A i \in SpelledSeedKeys(last.arg.s) :
              last.info.recipients = HardcodedData[i].val

\* The first lookup, of " TEST ", has returned the two seed recipients of
\* "test".
C4_Witness ==
  /\ C4_FirstLookup
  /\ last.arg.s = <<" ", "T", "E", "S", "T", " ">>
  /\ Len(last.info.recipients) = 2
  /\ last.info.recipients = HardcodedData[2].val

\* ------------------------------------------------------------------------
\* C5
\* ------------------------------------------------------------------------

\* C5: the lookup that follows a performMigration run that threw runs the
\* migration again: the completion guard does not stop it.
C5_FailedMigrationIsRetried ==
  [][ ( /\ last.migration.thrown
        /\ last'.op = "getInfoByCampus"
        /\ IsCampusName(last'.arg) )
      => last'.migration.ran ]_vars

\* ------------------------------------------------------------------------
\* C6
\* ------------------------------------------------------------------------

\* C6: isMigrationComplete() is true exactly when the dedicated flag is
\* 'true', whatever the stored payload says.
C6_FlagAloneDecides ==
  isMigrationComplete(World, {}) <=> (migrationCompleteProp = "true")

\* ------------------------------------------------------------------------
\* C7
\* ------------------------------------------------------------------------

\* C7: when performMigration, started with the flag unset, throws, the flag is
\* still unset.
C7_FailedMigrationLeavesFlagUnset ==
  ( /\ last.op = "performMigration"
    /\ pre.flag # "true"
    /\ last.thrown )
  => migrationCompleteProp # "true"

\* ------------------------------------------------------------------------
\* C8
\* ------------------------------------------------------------------------

\* C8: performMigration() started with the flag set returns false and leaves
\* the stored Directory, the flag and the Recipients sheet as they were, every
\* time it is called.
C8_CompletedMigrationIsNoOp ==
  (last.op = "performMigration" /\ pre.flag = "true") =>
    /\ last.ret = FALSE
    /\ ~last.thrown
    /\ ~last.migration.ran
    /\ campusDataProp = pre.cd
    /\ migrationCompleteProp = pre.flag
    /\ recipientsSheet = pre.sheet

\* performMigration() has returned twice in a row with the flag set, the
\* second time on a store without a cached Directory and an edited sheet.
C8_Witness ==
  /\ last.op = "performMigration"
  /\ pre.flag = "true"
  /\ pre.cd = AbsentData
  /\ pre.sheet.exists
  /\ edits > 0
  /\ last.ret = FALSE

\* ------------------------------------------------------------------------
\* C9
\* ------------------------------------------------------------------------

\* C9: no invocation and no edit unsets the dedicated flag once it is 'true'.
C9_FlagStaysSet == pre.flag = "true" => migrationCompleteProp = "true"

\* An edit notification has cleared the cache of a migrated store, and the
\* flag is still set.
C9_Witness ==
  /\ last.op = "onEdit"
  /\ pre.flag = "true"
  /\ pre.cd.kind = "json"
  /\ campusDataProp = AbsentData
  /\ migrationCompleteProp = "true"

\* ------------------------------------------------------------------------
\* C10
\* ------------------------------------------------------------------------

\* The cached Directory of w lists for every campus the recipients the
\* Recipients sheet of w lists for it.
DirectoryMatchesTable(w) ==
  LET stored == JSONParseEntries(w.cd.campusData)
  IN \A k \in Range(Keys(stored)) \cup Range(Keys(TableRecipients(w))) :
       LookupCampus(stored, k).recipients = ValueOf(TableRecipients(w), k)

\* C10: when a migration, a cache refresh and an edit of the Recipients sheet
\* with its notification have run concurrently and are all over, the store
\* holds no Directory that differs from the sheet; the next lookup therefore
\* reads the sheet.
C10_NoStaleDirectoryAfterEdit ==
  (Quiescent /\ campusDataProp.kind = "json") => DirectoryMatchesTable(World)

\* ------------------------------------------------------------------------
\* C11
\* ------------------------------------------------------------------------

\* C11: when onEdit returns after an edit of the Recipients sheet, header row
\* or data row, nothing is stored under CAMPUS_DATA_KEY; when it returns after
\* an edit of another sheet, what is stored there is what was stored before.
C11_EditClearsCacheOfRecipientsOnly ==
  last.op = "onEdit" =>
    IF last.arg = Str(SHEET_NAME)
    THEN campusDataProp = AbsentData
    ELSE campusDataProp = pre.cd

\* The notification of an edit of the header row has deleted a stored
\* Directory.
C11_Witness ==
  /\ last.op = "onEdit"
  /\ last.arg = Str(SHEET_NAME)
  /\ pre.cd.kind = "json"
  /\ pre.sheet.exists
  /\ pre.sheet.rows[1] # HeaderRow
  /\ campusDataProp = AbsentData

\* ------------------------------------------------------------------------
\* C12
\* ------------------------------------------------------------------------

\* JSON.parse rejects the text of the payload cd.
NotJSON(cd) == cd.kind \in {"garbage", "empty"}

\* The payload cd is JSON but has no campusData object, or one of its entries
\* has no array of recipients or no string as drive link.
MalformedJSON(cd) ==
  \/ cd.kind = "nomap"
  \/ /\ cd.kind = "json"
     /\ \E i \in 1..Len(cd.campusData) :
          ~cd.campusData[i].isArray \/ ~cd.campusData[i].linkIsString

C13_StoreRejectsWhatGetDiscards ==
  last.op = "storeCampusData" =>
    /\ (~last.directory.isObject \/ ~validateCacheData(last.directory.entries))
         => (last.thrown /\ campusDataProp = pre.cd)
    /\ ~last.thrown => ~getCampusData(World, {}).ret.isNull

\* ------------------------------------------------------------------------
\* C14
\* ------------------------------------------------------------------------

\* Every entry of d has an array of recipients the Validator's format rule
\* accepts and a string as drive link.
WellFormedDirectory(d) ==
  /\ d.isObject
  /\ \A i \in 1..Len(d.entries) :
       LET e == d.entries[i]
       IN /\ e.isObject /\ e.isArray /\ e.linkIsString
          /\ \A j \in 1..Len(e.recipients) : SheetEmailRegexTest(e.recipients[j])

RecipientsIn(entries) ==
  UNION {Range(entries[i].recipients) : i \in 1..Len(entries)}

\* C15: the format rule of validateCacheData accepts a recipient exactly when
\* the rule of validateEmailAddresses accepts it, and getCampusData() returns
\* a stored Directory of the right structure whose recipients the latter
\* accepts, without deleting it.
C15_CacheAppliesValidatorRule ==
  /\ campusDataProp.kind = "json" =>
       \A r \in RecipientsIn(JSONParseEntries(campusDataProp.campusData)) :
         CacheEmailRegexTest(r) <=> SheetEmailRegexTest(r)
  /\ ( /\ last.op = "getCampusData"
       /\ pre.cd.kind = "json"
       /\ WellFormedDirectory(Directory(JSONParseEntries(pre.cd.campusData))) )
     => (~last.data.isNull /\ campusDataProp = pre.cd)

\* ------------------------------------------------------------------------
\* C16
\* ------------------------------------------------------------------------

\* C16: clearCache(), with or without a stored payload, throws nothing and
\* leaves CAMPUS_DATA_KEY absent, the migration flag and the two sheets as
\* they were; a second clearCache() changes nothing.
C16_ClearIsIdempotent ==
  last.op = "clearCache" =>
    /\ ~last.thrown
    /\ campusDataProp = AbsentData
    /\ migrationCompleteProp = pre.flag
    /\ recipientsSheet = pre.sheet
    /\ referenceSheet = pre.ref
    /\ clearCache(World, {}) = [w |-> World, thrown |-> FALSE]

\* clearCache() has returned on a migrated store that held no payload.
C16_Witness ==
  /\ last.op = "clearCache"
  /\ ~last.thrown
  /\ pre.cd = AbsentData
  /\ pre.flag = "true"
  /\ pre.sheet.exists

\* ------------------------------------------------------------------------
\* C17
\* ------------------------------------------------------------------------

\* C17: with the migration complete, no cached Directory, and the Recipients
\* sheet missing or not healthy (unreadable, no data rows, wrong header),
\* getInfoByCampus(k) for a seed campus k rebuilds the sheet and returns the
\* recovered recipients of k, not an empty result.
C17_LookupRecoversTable ==
  ( /\ last.op = "getInfoByCampus"
    /\ pre.flag = "true"
    /\ pre.cd = AbsentData
    /\ ~HealthyTable(pre)
    /\ SpelledSeedKeys(last.arg.s) # {} )
  => /\ HealthyTable(World)
     /\ last.info.recipients # <<>>

\* ------------------------------------------------------------------------
\* C18
\* ------------------------------------------------------------------------

\* The (campus, recipient) pairs of a Directory, campus by campus.
RECURSIVE DirectoryPairs(_)
DirectoryPairs(entries) ==
  IF entries = <<>> THEN <<>>
  ELSE [j \in 1..Len(Head(entries).recipients) |->
          <<Head(entries).key, Head(entries).recipients[j]>>]
       \o DirectoryPairs(Tail(entries))

\* The (campus, recipient) pairs of the seed table.
SeedPairs ==
  DirectoryPairs(CombineHardcoded(HardcodedData, HardcodedDriveLinks))

\* The pairs of the source a recovery started in w draws on: the cached
\* Directory when getCampusData() returns one that is not empty, the seed
\* table otherwise.
RecoverySourcePairs(w) ==
  LET cached == getCampusData(w, {}).ret
  IN IF cached.isNull \/ cached.entries = <<>> THEN SeedPairs
     ELSE DirectoryPairs(cached.entries)

OnlyInvalidRows(w) ==
  LET validationResults == validateEmailAddresses(batchReadSheetData(w, {}).data)
  IN /\ HealthyTable(w)
     /\ validationResults.valid = <<>>
     /\ validationResults.invalid # <<>>

\* C19: when the Recipients sheet has the right header and one or more data
\* rows of which none is valid, validateAndRecoverSheet() replaces it by a
\* sheet rebuilt from the cached Directory or the seed table.
C19_ValidateReplacesGarbageTable ==
  (last.op = "validateAndRecoverSheet" /\ OnlyInvalidRows(pre)) =>
    /\ last.action \in {"recovered_from_cache", "recovered_from_hardcoded"}
    /\ recipientsSheet.rows = <<HeaderRow>> \o RecoverySourcePairs(pre)

\* ------------------------------------------------------------------------
\* C20
\* ------------------------------------------------------------------------

\* C20: when the recovery runs, the rebuilt sheet holds exactly the (campus,
\* recipient) pairs of the cached Directory if getCampusData() returns one
\* that is not empty; otherwise exactly the pairs of the seed table, with a
\* successful outcome; and when the seed table is empty as well the outcome
\* is success = false with action recovery_failed.
C20_RecoverySourcePriority ==
  (last.op = "recoverRecipientsSheet" /\ last.action # "no_recovery_needed") =>
    LET cached == getCampusData(pre, {}).ret
    IN IF ~cached.isNull /\ cached.entries # <<>>
       THEN /\ last.ret = TRUE
            /\ last.action = "recovered_from_cache"
            /\ recipientsSheet.exists
            /\ recipientsSheet.rows = <<HeaderRow>> \o DirectoryPairs(cached.entries)
       ELSE IF last.seed # <<>>
       THEN /\ last.ret = TRUE
            /\ last.action = "recovered_from_hardcoded"
            /\ recipientsSheet.exists
            /\ recipientsSheet.rows =
                 <<HeaderRow>> \o
                 DirectoryPairs(CombineHardcoded(last.seed, HardcodedDriveLinks))
       ELSE /\ last.ret = FALSE
            /\ last.action = "recovery_failed"

\* A recovery that found neither a cached Directory nor a seed table has
\* reported recovery_failed.
C20_Witness ==
  /\ last.op = "recoverRecipientsSheet"
  /\ getCampusData(pre, {}).ret.isNull
  /\ last.seed = <<>>
  /\ last.ret = FALSE
  /\ last.action = "recovery_failed"

\* ------------------------------------------------------------------------
\* C21
\* ------------------------------------------------------------------------

\* The Recipients sheet of w has the right header and at least one valid row.
HasValidRow(w) ==
  /\ HealthyTable(w)
  /\ validateEmailAddresses(batchReadSheetData(w, {}).data).valid # <<>>

\* C21 as stated: when the Recipients sheet exists, has the header [Campus,
\* Recipient] and holds at least one valid row, validateAndRecoverSheet()
\* returns success = true with action no_recovery_needed and leaves the sheet
\* and the stored Directory as they were.
C21_HealthyTableNoRecoveryNeeded ==
  (last.op = "validateAndRecoverSheet" /\ HasValidRow(pre)) =>
    /\ last.ret = TRUE
    /\ last.action = "no_recovery_needed"
    /\ recipientsSheet = pre.sheet
    /\ campusDataProp = pre.cd

\* C21 as amended: under the same condition validateAndRecoverSheet() returns
\* success = true with action validation_passed and leaves the sheet and the
\* stored Directory as they were.
C21_HealthyTableValidationPassed ==
  (last.op = "validateAndRecoverSheet" /\ HasValidRow(pre)) =>
    /\ last.ret = TRUE
    /\ last.action = "validation_passed"
    /\ recipientsSheet = pre.sheet
    /\ campusDataProp = pre.cd

\* validateAndRecoverSheet() has passed a sheet that holds valid rows and an
\* invalid one, with a Directory in the cache.
C21_Witness ==
  /\ last.op = "validateAndRecoverSheet"
  /\ HasValidRow(pre)
  /\ validateEmailAddresses(batchReadSheetData(pre, {}).data).invalid # <<>>
  /\ pre.cd.kind = "json"
  /\ last.action = "validation_passed"
  /\ recipientsSheet = pre.sheet

\* ------------------------------------------------------------------------
\* C22
\* ------------------------------------------------------------------------

\* The row numbers of the data rows of a table.
DataRowNumbers(data) == 2..Len(data)

\* Both fields of the row are empty once trimmed.
BlankRow(row) == trim(row[1]) = <<>> /\ trim(row[2]) = <<>>

\* Both fields of the row are present.
FullRow(row) == trim(row[1]) # <<>> /\ trim(row[2]) # <<>>

\* The row is malformed: one field is missing, or the recipient has a bad
\* format.
MalformedRow(row) ==
  /\ ~BlankRow(row)
  /\ ~(FullRow(row) /\ SheetEmailRegexTest(trim(row[2])))

\* Row i has both fields and its recipient is, letter case aside, the
\* recipient of an earlier row that has both fields.
RepeatsEarlierRecipient(data, i) ==
  /\ FullRow(data[i])
  /\ \E j \in 2..(i - 1) :
       /\ FullRow(data[j])
       /\ toLowerCase(trim(data[j][2])) = toLowerCase(trim(data[i][2]))

MalformedCount(data) ==
  Cardinality({i \in DataRowNumbers(data) : MalformedRow(data[i])})

BlankCount(data) ==
  Cardinality({i \in DataRowNumbers(data) : BlankRow(data[i])})

RepeatCount(data) ==
  Cardinality({i \in DataRowNumbers(data) : RepeatsEarlierRecipient(data, i)})

DomainPart(r) ==
  SubSeq(r, (CHOOSE i \in AtPositions(r) : \A j \in AtPositions(r) : i <= j) + 1,
         Len(r))

\* r has no "@", more than one "@", an "@" first or last, no dot in its
\* domain part, two dots in a row, or a blank.
BadRecipientShape(r) ==
  \/ Cardinality(AtPositions(r)) # 1
  \/ r[1] = "@"
  \/ r[Len(r)] = "@"
  \/ \A i \in 1..Len(DomainPart(r)) : DomainPart(r)[i] # "."
  \/ \E i \in 1..(Len(r) - 1) : r[i] = "." /\ r[i + 1] = "."
  \/ \E i \in 1..Len(r) : r[i] \in Whitespace

\* C23: validateEmailAddresses records an error for, and leaves out of valid,
\* every row whose recipient has no "@", more than one "@", an "@" first or
\* last, no dot in its domain part, two dots in a row, or an illegal
\* character such as a blank.
C23_BadRecipientsRejected ==
  last.op = "validateEmailAddresses" =>
    \A i \in DataRowNumbers(last.sheetData) :
      (FullRow(last.sheetData[i])
         /\ BadRecipientShape(trim(last.sheetData[i][2]))) =>
        /\ Includes(last.validationResults.errors, i)
        /\ \A k \in 1..Len(last.validationResults.valid) :
             last.validationResults.valid[k].rowNumber # i

\* ------------------------------------------------------------------------
\* C24
\* ------------------------------------------------------------------------

\* The campus keys of a list of valid entries.
CampusesOf(validEntries) ==
  {validEntries[k].campus : k \in 1..Len(validEntries)}

\* The positions of the entries of campus c with recipient r.
PositionsOf(validEntries, c, r) ==
  {k \in 1..Len(validEntries) :
     validEntries[k].campus = c /\ validEntries[k].recipient = r}

\* The position at which the pair (c, r) first occurs.
FirstPosition(validEntries, c, r) ==
  CHOOSE k \in PositionsOf(validEntries, c, r) :
    \A m \in PositionsOf(validEntries, c, r) : k <= m

\* list holds every distinct recipient of campus c once, in the order of
\* first occurrence.
DistinctInFirstOccurrenceOrder(list, validEntries, c) ==
  /\ Range(list) =
       {validEntries[k].recipient :
          k \in {m \in 1..Len(validEntries) : validEntries[m].campus = c}}
  /\ \A p, q \in 1..Len(list) :
       p < q => FirstPosition(validEntries, c, list[p])
                  < FirstPosition(validEntries, c, list[q])

\* The entries whose (campus, recipient) pair occurred at an earlier one.
DroppedEntries(validEntries) ==
  {k \in 1..Len(validEntries) :
     k # FirstPosition(validEntries, validEntries[k].campus,
                       validEntries[k].recipient)}

\* C24: handleDuplicateCampusEntries keeps the first occurrence of a pair
\* however often the pair is repeated: every campus of the valid entries has
\* a list, the list holds each distinct recipient of the campus once in the
\* order of first occurrence, and there is one duplicate warning for each
\* dropped entry, naming its row.
C24_FirstOccurrenceWins ==
  last.op = "handleDuplicateCampusEntries" =>
    LET validEntries == last.validEntries
        res == last.duplicateResult
    IN /\ Range(Keys(res.data)) = CampusesOf(validEntries)
       /\ \A c \in CampusesOf(validEntries) :
            DistinctInFirstOccurrenceOrder(ValueOf(res.data, c), validEntries, c)
       /\ Len(res.duplicateWarnings) = Cardinality(DroppedEntries(validEntries))
       /\ Range(res.duplicateWarnings) =
            {validEntries[k].rowNumber : k \in DroppedEntries(validEntries)}

\* handleDuplicateCampusEntries has read the same pair three times and has
\* dropped it twice.
C24_Witness ==
  /\ last.op = "handleDuplicateCampusEntries"
  /\ Len(last.validEntries) = 3
  /\ Cardinality(DroppedEntries(last.validEntries)) = 2
  /\ Len(last.duplicateResult.duplicateWarnings) = 2
  /\ Len(last.duplicateResult.data) = 1
  /\ Len(last.duplicateResult.data[1].val) = 1

\* ------------------------------------------------------------------------
\* C25
\* ------------------------------------------------------------------------

\* C25: in the campus -> recipients map that validateEmailAddresses followed
\* by handleDuplicateCampusEntries makes of a table, no campus has two
\* recipients that are equal once both are put in lower case.
C25_NoRecipientTwiceIgnoringCase ==
  last.op = "handleDuplicateCampusEntries" =>
    \A c \in 1..Len(last.duplicateResult.data) :
      \A p, q \in 1..Len(last.duplicateResult.data[c].val) :
        p # q => toLowerCase(last.duplicateResult.data[c].val[p])
                   # toLowerCase(last.duplicateResult.data[c].val[q])

\* ------------------------------------------------------------------------
\* C26
\* ------------------------------------------------------------------------

\* b is a with one character taken out.
OneDeleted(a, b) ==
  /\ Len(a) = Len(b) + 1
  /\ \E k \in 1..Len(a) :
       b = SubSeq(a, 1, k - 1) \o SubSeq(a, k + 1, Len(a))

\* a and b are equal or one insertion, deletion or substitution apart.
AtMostOneEdit(a, b) ==
  \/ a = b
  \/ OneDeleted(a, b)
  \/ OneDeleted(b, a)
  \/ /\ Len(a) = Len(b)
     /\ Cardinality({k \in 1..Len(a) : a[k] # b[k]}) = 1

\* The strings one insertion, deletion or substitution away from a, with
\* characters of alphabet.
OneEditStrings(a, alphabet) ==
  {SubSeq(a, 1, k - 1) \o SubSeq(a, k + 1, Len(a)) : k \in 1..Len(a)}
  \cup {[a EXCEPT ![k] = c] : k \in 1..Len(a), c \in alphabet}
  \cup {SubSeq(a, 1, k) \o <<c>> \o SubSeq(a, k + 1, Len(a)) :
          k \in 0..Len(a), c \in alphabet}

\* b is two or fewer insertions, deletions and substitutions away from a.
WithinTwoEdits(a, b) ==
  \E m \in OneEditStrings(a, Range(a) \cup Range(b)) \cup {a} :
    AtMostOneEdit(m, b)

\* The edit distance by its definition.
RECURSIVE EditDistance(_, _)
EditDistance(a, b) ==
  IF a = <<>> THEN Len(b)
  ELSE IF b = <<>> THEN Len(a)
  ELSE IF Head(a) = Head(b) THEN EditDistance(Tail(a), Tail(b))
  ELSE 1 + Min3(EditDistance(Tail(a), b), EditDistance(a, Tail(b)),
                EditDistance(Tail(a), Tail(b)))

\* The campus keys validateEmailAddresses makes of the typed names, and the
\* seed keys.
TypedKeys == {toLowerCase(trim(c)) : c \in TypedCampuses}
SeedKeys == UNION {Range(l) : l \in ExpectedCampusLists}

\* The pairs of a typed key and a seed key within two edits of each other.
PairsWithinTwoEdits ==
  {p \in TypedKeys \X SeedKeys : WithinTwoEdits(p[1], p[2])}

\* The edit distance of the pairs of no more than twelve characters.
EditDistances ==
  [p \in {q \in TypedKeys \X SeedKeys : Len(q[1]) + Len(q[2]) <= 12} |->
     EditDistance(p[1], p[2])]

\* Entry k is the first of its campus in the list.
FirstSeen(validEntries, k) ==
  \A m \in 1..(k - 1) : validEntries[m].campus # validEntries[k].campus

\* The seed keys that contain u, are contained in u or are within two edits
\* of u.
SimilarKeys(u, expectedCampuses) ==
  {e \in Range(expectedCampuses) :
     \/ StringIncludes(e, u)
     \/ StringIncludes(u, e)
     \/ <<u, e>> \in PairsWithinTwoEdits}

\* C26: for every campus key u of the valid entries that is not a seed key,
\* validateCampusNames suggests, at the row where u is first seen, exactly
\* the seed keys that contain u, are contained in u, or are at edit distance
\* 2 or less from u (no suggestion is recorded when there is none), and
\* calculateLevenshteinDistance(u, e) is the edit distance of u and e.
C26_SuggestionsAreTheSimilarKeys ==
  last.op = "validateCampusNames" =>
    \A k \in 1..Len(last.validEntries) :
      LET u == last.validEntries[k].campus
          similar == SimilarKeys(u, last.expectedCampuses)
          recorded == {s \in 1..Len(last.campusNames.suggestions) :
                         last.campusNames.suggestions[s].campus = u}
      IN (FirstSeen(last.validEntries, k)
            /\ ~Includes(last.expectedCampuses, u)) =>
           /\ similar = {} => recorded = {}
           /\ similar # {} =>
                /\ Cardinality(recorded) = 1
                /\ \A s \in recorded :
                     /\ Range(last.campusNames.suggestions[s].suggestions)
                          = similar
                     /\ last.campusNames.suggestions[s].rowNumber
                          = last.validEntries[k].rowNumber
           /\ \A e \in Range(last.expectedCampuses) :
                <<u, e>> \in DOMAIN EditDistances =>
                  calculateLevenshteinDistance(u, e) = EditDistances[<<u, e>>]

\* validateCampusNames has suggested "bernal" for "bernel", one substitution
\* away.
C26_Witness ==
  /\ last.op = "validateCampusNames"
  /\ \E s \in 1..Len(last.campusNames.suggestions) :
       /\ last.campusNames.suggestions[s].campus
            = <<"b", "e", "r", "n", "e", "l">>
       /\ last.campusNames.suggestions[s].suggestions = <<CampusBernal>>
  /\ EditDistances[<<<<"b", "e", "r", "n", "e", "l">>, CampusBernal>>] = 1

\* ------------------------------------------------------------------------
\* C27
\* ------------------------------------------------------------------------

\* s without the whitespace around it.
Core(s) ==
  LET inked == {i \in 1..Len(s) : s[i] \notin Whitespace}
  IN IF inked = {} THEN <<>>
     ELSE SubSeq(s, CHOOSE i \in inked : \A j \in inked : i <= j,
                    CHOOSE i \in inked : \A j \in inked : j <= i)

\* c and d are the same character, or the two cases of one letter.
SameLetter(c, d) ==
  \/ c = d
  \/ \E j \in 1..Len(LowerLetters) :
       {c, d} = {LowerLetters[j], UpperLetters[j]}

\* a and b are equal after trimming and lower-casing.
SameKey(a, b) ==
  /\ Len(Core(a)) = Len(Core(b))
  /\ \A i \in 1..Len(Core(a)) : SameLetter(Core(a)[i], Core(b)[i])

\* Ways of writing the keys a caller passes.
KeySpellings ==
  {CampusTest, <<"T", "E", "S", "T">>, <<" ", "T", "E", "S", "T", " ">>,
   <<"T", "e", "s", "t", "\t">>, <<" ", " ", "t", "E", "s", "T">>,
   <<"t", "s", "e", "t">>, <<" ", "T", "S", "E", "T">>,
   <<>>, <<" ", " ">>, CampusBernal,
   <<"B", "E", "R", "N", "A", "L", " ">>}

\* The last invocation was a lookup by a string, started with a valid
\* Directory in the cache.
C27_LookupOnValidCache ==
  /\ last.op = "getInfoByCampus"
  /\ last.arg.isString
  /\ ~getCampusData(pre, {}).ret.isNull

\* C27: with a valid Directory in the cache, getInfoByCampus(k1) and
\* getInfoByCampus(k2) return equal records whenever k1 and k2 are equal
\* after trimming the surrounding whitespace and lower-casing.
C27_SameKeySameRecord ==
  C27_LookupOnValidCache =>
    \A k2 \in KeySpellings :
      SameKey(last.arg.s, k2) =>
        getInfoByCampus(pre, {}, Str(k2)).info = last.info

\* A lookup of " TEST " on a valid cache has returned recipients, the ones a
\* lookup of "Test<tab>" returns.
C27_Witness ==
  /\ C27_LookupOnValidCache
  /\ last.cacheHit
  /\ last.arg.s = <<" ", "T", "E", "S", "T", " ">>
  /\ last.info.recipients # <<>>
  /\ getInfoByCampus(pre, {}, Str(<<"T", "e", "s", "t", "\t">>)).info
       = last.info

\* ------------------------------------------------------------------------
\* C30
\* ------------------------------------------------------------------------

\* The last invocation ran the migration to its end.
C30_MigrationRan ==
  /\ last.op \in {"performMigration", "getInfoByCampus"}
  /\ last.migration.ran
  /\ ~last.migration.thrown
  /\ campusDataProp.kind = "json"

\* C30: the Directory performMigration stores holds every seed campus, with
\* the folder id of the CampusReferenceInfo sheet or an empty one when the
\* sheet has none, and every campus that only the CampusReferenceInfo sheet
\* has, with no recipients.
C30_MigrationKeepsCampusesOfOneSource ==
  C30_MigrationRan =>
    LET stored    == JSONParseEntries(campusDataProp.campusData)
        driveData == readCampusReferenceInfo(pre, {})
    IN /\ \A i \in 1..Len(HardcodedData) :
            /\ Has(stored, HardcodedData[i].key)
            /\ \A e \in 1..Len(stored) :
                 stored[e].key = HardcodedData[i].key =>
                   /\ stored[e].recipients = HardcodedData[i].val
                   /\ stored[e].driveLink
                        = ValueOf(driveData, HardcodedData[i].key)
       /\ \A j \in 1..Len(driveData) :
            ~Has(HardcodedData, driveData[j].key) =>
              /\ Has(stored, driveData[j].key)
              /\ \A e \in 1..Len(stored) :
                   stored[e].key = driveData[j].key =>
                     /\ stored[e].recipients = <<>>
                     /\ stored[e].driveLink = driveData[j].val

\* ------------------------------------------------------------------------
\* C28
\* ------------------------------------------------------------------------

\* C28: whatever log calls were made and however their statements were
\* interleaved, the migration log holds at most 50 entries, the runtime log
\* at most 100 and the invalidation events at most 10, and each log holds
\* the entries written last, from the last written to the first: the entry
\* just written is its first one and the entries dropped are the oldest.
C28_LogsKeepTheNewestEntries ==
  \A log \in LogNames :
    /\ Len(telemetry[log].entries) <= LimitOf(log)
    /\ telemetry[log].entries = slice(logging.written[log], LimitOf(log))

\* ------------------------------------------------------------------------
\* C29
\* ------------------------------------------------------------------------

\* C29: logMigrationStatus and logRuntimeOperation return without throwing
\* and touch nothing but the telemetry, whether or not the store calls fail
\* and whatever the stored log and summary hold; a lookup that writes its
\* log entries returns without throwing the record it returns when every
\* write succeeds, and leaves the cache, the flag and the sheets as that
\* lookup leaves them.
C29_LogCallsNeverThrow ==
  /\ last.op \in {"logMigrationStatus", "logRuntimeOperation"} =>
       /\ ~last.thrown
       /\ World = pre
  /\ (last.op = "getInfoByCampus" /\ last.cacheHit) =>
       /\ ~last.thrown
       /\ last.info = getInfoByCampus(pre, {}, last.arg).info
       /\ World = getInfoByCampus(pre, {}, last.arg).w

\* A lookup in which setProperty of the runtime log failed has stored no
\* entry and has returned the recipients of the campus.
C29_Witness ==
  /\ last.op = "getInfoByCampus"
  /\ logging.F = {"logRuntimeOperation.setProperty"}
  /\ telemetry.runtimeLogs = logging.before.runtimeLogs
  /\ ~last.thrown
  /\ last.info.recipients # <<>>

\* ------------------------------------------------------------------------
\* C31
\* ------------------------------------------------------------------------

\* The last invocation was a performMigration() that passed its guard.
C31_MigrationRun ==
  /\ last.op = "performMigration"
  /\ last.migration.ran

\* C31: a run of performMigration takes its steps in the order extract,
\* combine, store, create the sheet, mark complete, and enters no step after
\* one has thrown: when it has set MIGRATION_COMPLETE the Directory is
\* stored and the Recipients sheet exists; when storing threw, the sheet,
\* the flag and the timestamp are as before; when creating the sheet threw,
\* the Directory is stored and the flag and the timestamp are as before;
\* when marking threw, the Directory is stored and the sheet exists.
C31_StepsInOrder ==
  C31_MigrationRun =>
    LET combinedData ==
          CombineHardcoded(HardcodedData, readCampusReferenceInfo(pre, {}))
        directoryStored ==
          /\ campusDataProp.kind = "json"
          /\ Keys(JSONParseEntries(campusDataProp.campusData))
               = Keys(combinedData)
    IN /\ (pre.flag # "true" /\ migrationCompleteProp = "true") =>
            /\ directoryStored
            /\ recipientsSheet.exists
       /\ last.migration.step = "store_properties" =>
            /\ campusDataProp = pre.cd
            /\ recipientsSheet = pre.sheet
            /\ migrationCompleteProp = pre.flag
            /\ lastUpdatedProp = pre.ts
       /\ last.migration.step = "create_sheet" =>
            /\ directoryStored
            /\ migrationCompleteProp = pre.flag
            /\ lastUpdatedProp = pre.ts
       /\ last.migration.step = "mark_complete" =>
            /\ directoryStored
            /\ recipientsSheet.exists
       /\ ~last.migration.thrown =>
            /\ directoryStored
            /\ recipientsSheet.exists
            /\ migrationCompleteProp = "true"

\* A run in which creating the sheet threw: the Directory is stored and the
\* flag is not set.
C31_Witness ==
  /\ C31_MigrationRun
  /\ last.migration.step = "create_sheet"
  /\ campusDataProp.kind = "json"
  /\ pre.cd = AbsentData
  /\ migrationCompleteProp = "absent"

\* ------------------------------------------------------------------------
\* C32
\* ------------------------------------------------------------------------

\* A performMigration() that passed its guard while the dedicated flag was not
\* true and the Recipients sheet was there.
C32_MigrationOverExistingSheet ==
  /\ last.op = "performMigration"
  /\ last.migration.ran
  /\ pre.flag # "true"
  /\ pre.sheet.exists

\* C32: a migration that runs with completeFlag false and the Recipients sheet
\* already present leaves the sheet as it was, every row of it, whatever the
\* rows hold.
C32_ExistingSheetIsLeftAlone ==
  C32_MigrationOverExistingSheet => recipientsSheet = pre.sheet

\* Such a migration ran to its end over a sheet whose rows are not the seed
\* rows.
C32_Witness ==
  /\ C32_MigrationOverExistingSheet
  /\ ~last.migration.thrown
  /\ migrationCompleteProp = "true"
  /\ pre.sheet.rows # <<HeaderRow>> \o PairRows(HardcodedData)

\* ------------------------------------------------------------------------
\* C33
\* ------------------------------------------------------------------------

\* A performMigration() that passed its guard and whose read of the
\* CampusReferenceInfo sheet found no sheet or threw.
C33_ReferenceReadFellBack ==
  /\ last.op = "performMigration"
  /\ last.migration.ran
  /\ \/ ~pre.ref.exists
     \/ "readCampusReferenceInfo.getValues" \in last.F

\* C33: readCampusReferenceInfo() never raises: when the reference sheet is
\* absent or reading it throws it returns the hardcoded drive links, so the
\* migration fails only if another of its calls failed, and the Directory it
\* stores carries the hardcoded folder ids.
C33_ReferenceReadNeverFailsTheMigration ==
  C33_ReferenceReadFellBack =>
    /\ last.migration.thrown =>
         last.F \cap {"storeCampusData.setProperty", "createSheet.insertSheet",
                      "createSheet.setValue", "setMigrationComplete.setFlag",
                      "setMigrationComplete.setTimestamp"} # {}
    /\ last.migration.step # "store_properties" =>
         /\ campusDataProp.kind = "json"
         /\ JSONParseEntries(campusDataProp.campusData)
              = CombineHardcoded(HardcodedData, getHardcodedDriveLinks)

\* The read threw and the migration went on to its end.
C33_Witness ==
  /\ C33_ReferenceReadFellBack
  /\ pre.ref.exists
  /\ "readCampusReferenceInfo.getValues" \in last.F
  /\ ~last.migration.thrown
  /\ migrationCompleteProp = "true"

\* ------------------------------------------------------------------------
\* C34
\* ------------------------------------------------------------------------

\* The calls of logRuntimeOperation(operation, ...) made so far whose data
\* had a duration.
C34_SamplesOf(operation) ==
  LET Same(call) == call.operation = operation
  IN SelectSeq(logging.samples, Same)

RECURSIVE C34_Sum(_)
C34_Sum(calls) ==
  IF calls = <<>> THEN 0 ELSE Head(calls).data.duration + C34_Sum(Tail(calls))

\* C34: when every store call has succeeded and the property runtimeStats
\* holds statistics, for each operation the metric of the operation counts
\* the calls that supplied a duration, a duration of 0 included, totals their
\* durations, and has minTime <= maxTime and
\* count * minTime <= totalTime <= count * maxTime.
C34_DurationStatistics ==
  (faults = 0 /\ telemetry.runtimeStats.kind = "object") =>
    \A i \in 1..Len(logging.samples) :
      LET operation == logging.samples[i].operation
          metric == ValueOr(telemetry.runtimeStats.performanceMetrics,
                            operation, NoMetric)
      IN /\ metric.count = Len(C34_SamplesOf(operation))
         /\ metric.totalTime = C34_Sum(C34_SamplesOf(operation))
         /\ ~metric.minTime.isNull
         /\ ~metric.maxTime.isNull
         /\ metric.minTime.n <= metric.maxTime.n
         /\ metric.count * metric.minTime.n <= metric.totalTime
         /\ metric.totalTime <= metric.count * metric.maxTime.n

\* ------------------------------------------------------------------------
\* C35
\* ------------------------------------------------------------------------

\* C35: for every table, the summary of the validationResults agrees with
\* its lists: totalRows is the number of valid entries plus the number of
\* invalid entries plus emptyRows, validEmails is the length of valid, and
\* invalidEmails is the length of invalid, the rows without campus or without
\* recipient included.
C35_SummaryAgreesWithLists ==
  last.op = "validateEmailAddresses" =>
    LET validationResults == last.validationResults
    IN /\ validationResults.totalRows
            = Len(validationResults.valid) + Len(validationResults.invalid)
              + validationResults.emptyRows
       /\ validationResults.validEmails = Len(validationResults.valid)
       /\ validationResults.invalidEmails = Len(validationResults.invalid)

\* ------------------------------------------------------------------------
\* C36
\* ------------------------------------------------------------------------

\* C36: when no invocation is running and no edit waits for its
\* notification, a Directory stored under CAMPUS_DATA_KEY lists for every
\* campus the recipients the valid rows of the Recipients sheet list for it.
C36_DirectoryAgreesWithTable ==
  (pendingEdits = 0 /\ campusDataProp.kind = "json" /\ recipientsSheet.exists)
    => DirectoryMatchesTable(World)

\* ------------------------------------------------------------------------
\* C37
\* ------------------------------------------------------------------------

\* The last invocation was a validateAndRecoverSheet() that reported a
\* recovery from the cache or from the seed table.
C37_Recovered ==
  /\ last.op = "validateAndRecoverSheet"
  /\ last.ret = TRUE
  /\ last.action \in {"recovered_from_cache", "recovered_from_hardcoded"}

\* C37: a validateAndRecoverSheet() called right after one that reported a
\* recovery finds the sheet healthy, recovers nothing and leaves the sheet as
\* it is, whatever Directory is cached.
C37_RecoveryConverges ==
  [][ (C37_Recovered /\ last'.op = "validateAndRecoverSheet") =>
        /\ last'.ret = TRUE
        /\ last'.action \in {"validation_passed", "no_recovery_needed"}
        /\ recipientsSheet' = recipientsSheet ]_vars

\* ------------------------------------------------------------------------
\* C38
\* ------------------------------------------------------------------------

\* Both migrations are over.
C38_BothOver == \A i \in {1, 2} : running.peers[i].pc = "done"

\* C38: when two migrations started on a fresh install are both over,
\* however their I/O calls were interleaved, the Recipients sheet holds the
\* header and each (campus, recipient) pair of the seed table in exactly one
\* row and nothing else; and when one of them returned without an error the
\* flag is 'true' and the stored Directory is the seed combined with the
\* folder ids.
C38_TwoMigrationsLeaveOneTable ==
  C38_BothOver =>
    LET pairs == PairRows(HardcodedData)
        rows  == recipientsSheet.rows
    IN /\ recipientsSheet.exists
       /\ Len(rows) >= 1
       /\ rows[1] = HeaderRow
       /\ \A p \in 1..Len(pairs) :
            Cardinality({r \in 2..Len(rows) : rows[r] = pairs[p]}) = 1
       /\ \A r \in 2..Len(rows) : \E p \in 1..Len(pairs) : rows[r] = pairs[p]
       /\ (\E i \in {1, 2} : ~running.peers[i].thrown) =>
            /\ migrationCompleteProp = "true"
            /\ campusDataProp.kind = "json"
            /\ JSONParseEntries(campusDataProp.campusData)
                 = CombineHardcoded(HardcodedData,
                                    readCampusReferenceInfo(World, {}))

\* Both migrations found no sheet; one inserted it, the insertSheet of the
\* other threw, and the first went on to its end.
C38_Witness ==
  /\ C38_BothOver
  /\ \E i \in {1, 2} : running.peers[i].thrown
  /\ \E i \in {1, 2} : running.peers[i].ret = TRUE

\* ------------------------------------------------------------------------
\* C39
\* ------------------------------------------------------------------------

\* The last invocation was a lookup of a campus name, started with the flag
\* set, in which getCampusData() returned the cached Directory.
C39_LookupOnCacheHit ==
  /\ last.op = "getInfoByCampus"
  /\ IsCampusName(last.arg)
  /\ pre.flag = "true"
  /\ last.cacheHit

\* C39: a lookup made when the migration is complete and the cache is hit
\* leaves CAMPUS_DATA_KEY, the flag, the timestamp and both sheets as they
\* were and writes no migration log, summary or invalidation event; what it
\* returns is what it returns when neither sheet is there, so it has read
\* neither.
C39_CacheHitTouchesNothing ==
  C39_LookupOnCacheHit =>
    /\ World = pre
    /\ telemetry.migrationLogs = logging.before.migrationLogs
    /\ telemetry.migrationSummary = logging.before.migrationSummary
    /\ telemetry.cacheInvalidationEvents = logging.before.cacheInvalidationEvents
    /\ last.info = getInfoByCampus([pre EXCEPT !.sheet = NoSheet,
                                               !.ref = NoSheet],
                                   {}, last.arg).info
    /\ ~last.failed

\* Such a lookup has returned the recipients of a campus and has written its
\* entries into the runtime log.
C39_Witness ==
  /\ C39_LookupOnCacheHit
  /\ last.info.recipients # <<>>
  /\ telemetry.runtimeLogs # logging.before.runtimeLogs

====
